---------------------------- MODULE Spec2Model ----------------------------
(***************************************************************************)
(* Model of the PICS ingestion service (services/pics-service):            *)
(*   - the persister      (database/operations.py, PICSDatabase)           *)
(*   - the change monitor (workers/change_monitor.py, ChangeMonitorWorker) *)
(*   - the upstream session (steam/client.py, PICSSteamClient)             *)
(* Optional values are modelled as sequences: None is <<>>, a present      *)
(* value v is <<v>>.                                                       *)
(***************************************************************************)
EXTENDS Integers, Sequences, FiniteSets, TLC

VARIABLES
  \* the store and the persister
  store,            \* the relational store: one field per table
  pics_sync_state,  \* last_change_number of the row id=1 (None: no row)
  clock,            \* the wall clock (datetime.utcnow())
  call,             \* the last UpsertAppsBatch call: its input, the store before it, its result
  \* the change monitor (ChangeMonitorWorker)
  pc,               \* where run() stands
  running,          \* _running
  last_change,      \* the local last_change of run()
  changes,          \* the local changes of run(): the GetChangesSince result
                    \* of this iteration (None once processQueue has run)
  change_queue,     \* _change_queue
  processing_set,   \* _processing_set
  queue_batch,      \* the local batch of _process_queue while it runs
                    \* (empty: _process_queue is not running)
  \* the environment of the change monitor
  upstream,         \* the upstream's current change number, as of the last
                    \* GetChangesSince response
  connected,        \* PICSSteamClient.is_connected, as the monitor sees it
  \* history kept for the properties
  queue_before,     \* the queue as it was when the delta of this iteration
                    \* was handled
  pending,          \* appids enqueued and not persisted since
  boot,             \* this process: crashes so far, whether its cursor read
                    \* failed, whether it has written the cursor
  \* the upstream session (PICSSteamClient)
  _client,              \* the SteamClient in use (None: none)
  _connected,
  _auto_reconnect,
  _reconnecting,
  _heartbeat_greenlet,  \* the heartbeat task and where it stands (None: none)
  task,                 \* the tasks that call into the session: the caller
                        \* (task 0) and the auto-reconnect handlers
  fetcher,              \* the call of the caller into PICSFetcher, or its
                        \* refused reconnect(), in progress or last finished
  last_event,           \* history: the latest "disconnected" event and
                        \* whether it spawned a handler (None: no event yet)
  reconnect_call,       \* the caller's latest reconnect(max_attempts): its
                        \* argument, the logins it has attempted, its result
  \* the bulk backfill (BulkSyncWorker)
  bulk,                 \* where run() stands and whether its connect()
                        \* returned True
  \* the extractor (PICSExtractor)
  extraction,           \* the latest extract(appid, raw_data) call: the shape
                        \* of its raw record and how it ended
  \* the persister's other operations (PICSDatabase)
  app_record,           \* the latest _build_app_record call: the name and
                        \* type of its app and the type column of its row
  paging                \* the latest get_all_app_ids call: its argument,
                        \* cursor and list, and what happened meanwhile

persisterVars == <<store, clock, call>>

monitorVars ==
  <<pics_sync_state, pc, running, last_change, changes, change_queue,
    processing_set, queue_batch, upstream, connected, queue_before, pending,
    boot>>

sessionVars ==
  <<_client, _connected, _auto_reconnect, _reconnecting, _heartbeat_greenlet,
    task, fetcher, last_event, reconnect_call, bulk, extraction, app_record,
    paging>>

vars == <<store, pics_sync_state, clock, call, pc, running, last_change, changes,
          change_queue, processing_set, queue_batch, upstream, connected,
          queue_before,
          pending, boot, _client, _connected, _auto_reconnect, _reconnecting,
          _heartbeat_greenlet, task, fetcher, last_event, reconnect_call,
          bulk, extraction, app_record, paging>>

None == <<>>
Some(v) == <<v>>

Range(s) == {s[i] : i \in DOMAIN s}

Min(a, b) == IF a < b THEN a ELSE b

(***************************************************************************)
(* Bounds of the model.                                                    *)
(***************************************************************************)
\* the longest batch handed to UpsertAppsBatch
MaxBatch == 2
\* the number of store calls that may fail during one UpsertAppsBatch call
MaxFaults == 1

\* rows written per apps upsert chunk (500 in the program, scaled down so
\* that a batch spans several chunks)
UPSERT_BATCH_SIZE == 1

\* settings.max_queue_size and settings.process_batch_size (10000 and 100
\* by default, scaled down)
max_queue_size == 3
process_batch_size == 1

\* the longest list of app changes in one GetChangesSince result
MaxDelta == 2
\* the highest change number the upstream reaches
MaxChange == 2
\* the number of crashes of the process
MaxCrashes == 1
\* the last tick of the wall clock
MaxClock == 2

\* appids the upstream may deliver; only those of InitialApps have a row in
\* apps (the applist worker created it)
AppIds == {1, 2, 3}
InitialApps == {1, 2}
\* the appids the upstream reports as changed in a monitor run
ChangedAppIds == {1, 3}

(***************************************************************************)
(* Extracted records (extractors/common.py, ExtractedPICSData), reduced to *)
(* the fields the persister branches on.                                   *)
(***************************************************************************)
SecondsPerDay == 24 * 3600

\* datetime.date().isoformat(): the calendar day of a Unix timestamp
DateOf(ts) == ts \div SecondsPerDay

FullRecord(a) ==
  [appid |-> a, name |-> Some("Half-Life"), type |-> Some("game"),
   steam_release_date |-> Some(3 * SecondsPerDay + 7),
   release_state |-> Some("released"), is_free |-> TRUE,
   steam_deck |-> Some([category |-> 3]),
   categories |-> [c \in {1, 2} |-> c = 2],
   genres |-> <<1, 25>>, primary_genre |-> Some(25),
   store_tags |-> <<1, 19, 4182>>,
   associations |-> <<[type |-> "developer", name |-> "Valve"],
                      [type |-> "franchise", name |-> "Half-Life"]>>,
   dlc_appids |-> <<323130>>]

ShortRecord(a) ==
  [appid |-> a, name |-> None, type |-> None,
   steam_release_date |-> Some(5 * SecondsPerDay),
   release_state |-> Some("prerelease"), is_free |-> FALSE,
   steam_deck |-> None,
   categories |-> [c \in {1} |-> TRUE],
   genres |-> <<25>>, primary_genre |-> None,
   store_tags |-> <<19, 1>>,
   associations |-> <<>>,
   dlc_appids |-> <<>>]

EmptyRecord(a) ==
  [appid |-> a, name |-> None, type |-> None,
   steam_release_date |-> None,
   release_state |-> None, is_free |-> FALSE,
   steam_deck |-> None,
   categories |-> [c \in {} |-> TRUE],
   genres |-> <<>>, primary_genre |-> None,
   store_tags |-> <<>>,
   associations |-> <<>>,
   dlc_appids |-> <<>>]

\* a PICS value that is a nested section and not text; extract() passes
\* common.get("name") and common.get("type") on as they are
Section == "{section}"

\* the record of an app whose common.type is a nested section
SectionTypeRecord(a) == [ShortRecord(a) EXCEPT !.type = Some(Section)]

\* the records the extractor may deliver for an app
Extracted(a) ==
  CASE a = 1 -> {FullRecord(a), ShortRecord(a), EmptyRecord(a)}
    [] a = 2 -> {FullRecord(a), ShortRecord(a), SectionTypeRecord(a)}
    [] OTHER -> {FullRecord(a)}

(***************************************************************************)
(* The store. A store call is named by a site <<kind, key>>; F is the set  *)
(* of sites whose call raises. A working state w carries the tables (db)   *)
(* and the log of the store calls made so far, in order.                   *)
(***************************************************************************)
Logged(w, site, ok) ==
  [w EXCEPT !.log = Append(@, [site |-> site, ok |-> ok])]

\* one store call at `site`: on success the tables become `db`
StoreCall(w, F, site, db) ==
  IF site \in F THEN Logged(w, site, FALSE)
  ELSE [Logged(w, site, TRUE) EXCEPT !.db = db]

Failed(F, site) == site \in F

\* the appids of a sequence of extracted records
AppIdsOf(recs) == [i \in DOMAIN recs |-> recs[i].appid]

\* the subsequence of s whose elements satisfy membership in S
RECURSIVE SelectIn(_, _)
SelectIn(s, S) ==
  IF s = <<>> THEN <<>>
  ELSE IF Head(s) \in S THEN <<Head(s)>> \o SelectIn(Tail(s), S)
  ELSE SelectIn(Tail(s), S)

\* a lookup that takes every appid of the batch to have a row
GetEveryAppid(w, F, appids) ==
  IF appids = <<>> THEN [w |-> w, result |-> {}]
  ELSE
    [w |-> Logged(w, <<"select_existing", 0>>, ~Failed(F, <<"select_existing", 0>>)),
     result |-> Range(appids)]

\* _get_existing_appids: one select (batches of 1000); a failed select
\* contributes nothing
GetExistingAppids(w, F, appids) ==
  IF appids = <<>> THEN [w |-> w, result |-> {}]
  ELSE
    [w |-> Logged(w, <<"select_existing", 0>>, ~Failed(F, <<"select_existing", 0>>)),
     result |-> IF Failed(F, <<"select_existing", 0>>) THEN {}
                ELSE {a \in Range(appids) : a \in DOMAIN w.db.apps}]

\* _get_apps_with_storefront_dates
GetAppsWithStorefrontDates(w, F, appids) ==
  IF appids = <<>> THEN [w |-> w, result |-> {}]
  ELSE
    [w |-> Logged(w, <<"select_dates", 0>>, ~Failed(F, <<"select_dates", 0>>)),
     result |-> IF Failed(F, <<"select_dates", 0>>) THEN {}
                ELSE {a \in Range(appids) :
                        /\ a \in DOMAIN w.db.apps
                        /\ w.db.apps[a].release_date_raw # None}]

\* _get_apps_with_storefront_sync
GetAppsWithStorefrontSync(w, F, appids) ==
  IF appids = <<>> THEN [w |-> w, result |-> {}]
  ELSE
    [w |-> Logged(w, <<"select_sync", 0>>, ~Failed(F, <<"select_sync", 0>>)),
     result |-> IF Failed(F, <<"select_sync", 0>>) THEN {}
                ELSE {a \in Range(appids) :
                        /\ a \in DOMAIN w.db.sync_status
                        /\ w.db.sync_status[a].last_storefront_sync # None}]

\* _build_app_record raises inside its try block and returns None: the
\* type, or without a type the name, is lowercased (_map_app_type line 657,
\* _infer_type line 614), which a value that is not text does not support
BuildRaises(e) ==
  IF e.type # None THEN e.type[1] = Section
  ELSE e.name # None /\ e.name[1] = Section

\* _build_app_record: the columns of the upsert row. A column that is left
\* out is absent from the record's domain.
BuildAppRecord(e, has_storefront_date, has_storefront_sync, now) ==
  LET base == [appid |-> e.appid,
               release_state |-> e.release_state,
               updated_at |-> now]
      withName == IF e.name # None THEN [name |-> e.name] ELSE <<>>
      withFree == IF ~has_storefront_sync THEN [is_free |-> e.is_free] ELSE <<>>
      withDate == IF e.steam_release_date # None /\ ~has_storefront_date
                  THEN [release_date |-> Some(DateOf(e.steam_release_date[1]))]
                  ELSE <<>>
      withReleased == IF ~has_storefront_sync
                      THEN [is_released |-> (e.release_state = Some("released"))]
                      ELSE <<>>
  IN base @@ withName @@ withFree @@ withDate @@ withReleased

\* the store's upsert of one row on conflict appid: the columns supplied
\* overwrite, the others keep their value
UpsertRow(row, rec) ==
  [c \in DOMAIN row |-> IF c \in DOMAIN rec THEN rec[c] ELSE row[c]]

\* a row of apps with every column null
NullRow ==
  [name |-> None, release_date |-> None, release_date_raw |-> None,
   is_free |-> FALSE, is_released |-> FALSE, release_state |-> None,
   updated_at |-> 0]

\* apps.upsert(batch, on_conflict="appid"): an appid without a row gets one
RECURSIVE UpsertRows(_, _)
UpsertRows(apps, recs) ==
  IF recs = <<>> THEN apps
  ELSE LET r == Head(recs)
       IN UpsertRows(
            IF r.appid \in DOMAIN apps
            THEN [apps EXCEPT ![r.appid] = UpsertRow(@, r)]
            ELSE apps @@ (r.appid :> UpsertRow(NullRow, r)),
            Tail(recs))

(***************************************************************************)
(* Relation sync (operations.py 427-564). Every sub-step catches its own   *)
(* exceptions and returns normally.                                        *)
(***************************************************************************)
\* category_map.get(deck.category, "unknown")
DeckCategoryName(c) ==
  CASE c = 1 -> "unsupported"
    [] c = 2 -> "playable"
    [] c = 3 -> "verified"
    [] OTHER -> "unknown"

\* _upsert_steam_deck
UpsertSteamDeck(w, F, a, deck) ==
  StoreCall(w, F, <<"deck_upsert", a>>,
    [w.db EXCEPT !.app_steam_deck =
       [x \in (DOMAIN @) \cup {a} |->
          IF x = a THEN DeckCategoryName(deck.category) ELSE @[x]]])

\* _sync_categories
SyncCategories(w, F, a, categories) ==
  LET w1 == StoreCall(w, F, <<"categories_delete", a>>,
              [w.db EXCEPT !.app_categories = {r \in @ : r[1] # a}])
      enabled_cat_ids == {c \in DOMAIN categories : categories[c]}
      w2 == StoreCall(w1, F, <<"categories_lookup", a>>,
              [w1.db EXCEPT !.steam_categories = @ \cup enabled_cat_ids])
      w3 == StoreCall(w2, F, <<"categories_insert", a>>,
              [w2.db EXCEPT !.app_categories =
                 @ \cup {<<a, c>> : c \in enabled_cat_ids}])
  IN IF Failed(F, <<"categories_delete", a>>) THEN w1
     ELSE IF enabled_cat_ids = {} THEN w1
     ELSE IF Failed(F, <<"categories_lookup", a>>) THEN w2
     ELSE w3

\* _sync_genres
SyncGenres(w, F, a, genres, primary_genre) ==
  LET w1 == StoreCall(w, F, <<"genres_delete", a>>,
              [w.db EXCEPT !.app_genres = {r \in @ : r[1] # a}])
      w2 == StoreCall(w1, F, <<"genres_lookup", a>>,
              [w1.db EXCEPT !.steam_genres = @ \cup Range(genres)])
      w3 == StoreCall(w2, F, <<"genres_insert", a>>,
              [w2.db EXCEPT !.app_genres =
                 @ \cup {<<a, genres[i], Some(genres[i]) = primary_genre>> :
                           i \in DOMAIN genres}])
  IN IF Failed(F, <<"genres_delete", a>>) THEN w1
     ELSE IF genres = <<>> THEN w1
     ELSE IF Failed(F, <<"genres_lookup", a>>) THEN w2
     ELSE w3

\* a tag sync that adds the rows after those the app already has
SyncStoreTagsAppending(w, F, a, tag_ids) ==
  LET had == Cardinality({r \in w.db.app_steam_tags : r[1] = a})
      w2 == StoreCall(w, F, <<"tags_lookup", a>>,
              [w.db EXCEPT !.steam_tags = @ \cup Range(tag_ids)])
      w3 == StoreCall(w2, F, <<"tags_insert", a>>,
              [w2.db EXCEPT !.app_steam_tags =
                 @ \cup {<<a, tag_ids[i], had + i - 1>> : i \in DOMAIN tag_ids}])
  IN IF tag_ids = <<>> THEN w
     ELSE IF Failed(F, <<"tags_lookup", a>>) THEN w2
     ELSE w3

\* _sync_store_tags: rank is the 0-based position in tag_ids
SyncStoreTags(w, F, a, tag_ids) ==
  LET w1 == StoreCall(w, F, <<"tags_delete", a>>,
              [w.db EXCEPT !.app_steam_tags = {r \in @ : r[1] # a}])
      w2 == StoreCall(w1, F, <<"tags_lookup", a>>,
              [w1.db EXCEPT !.steam_tags = @ \cup Range(tag_ids)])
      w3 == StoreCall(w2, F, <<"tags_insert", a>>,
              [w2.db EXCEPT !.app_steam_tags =
                 @ \cup {<<a, tag_ids[i], i - 1>> : i \in DOMAIN tag_ids}])
  IN IF Failed(F, <<"tags_delete", a>>) THEN w1
     ELSE IF tag_ids = <<>> THEN w1
     ELSE IF Failed(F, <<"tags_lookup", a>>) THEN w2
     ELSE w3

\* the store-side routine upsert_franchise(name): the id of the franchise
\* of that name, created when absent
FranchiseId(franchises, name) ==
  IF name \in DOMAIN franchises THEN franchises[name]
  ELSE Cardinality(DOMAIN franchises) + 1

\* _upsert_franchise_link
UpsertFranchiseLink(w, F, a, name) ==
  LET fid == FranchiseId(w.db.franchises, name)
      w1 == StoreCall(w, F, <<"franchise_rpc", a>>,
              [w.db EXCEPT !.franchises =
                 [n \in (DOMAIN @) \cup {name} |-> IF n = name THEN fid ELSE @[n]]])
      w2 == StoreCall(w1, F, <<"franchise_link", a>>,
              [w1.db EXCEPT !.app_franchises = @ \cup {<<a, fid>>}])
  IN IF Failed(F, <<"franchise_rpc", a>>) THEN w1 ELSE w2

RECURSIVE UpsertFranchiseLinks(_, _, _, _)
UpsertFranchiseLinks(w, F, a, assocs) ==
  IF assocs = <<>> THEN w
  ELSE UpsertFranchiseLinks(
         IF Head(assocs).type = "franchise"
         THEN UpsertFranchiseLink(w, F, a, Head(assocs).name)
         ELSE w,
         F, a, Tail(assocs))

\* _sync_dlc_relationships
SyncDlcRelationships(w, F, a, dlc_appids) ==
  IF dlc_appids = <<>> THEN w
  ELSE StoreCall(w, F, <<"dlc_upsert", a>>,
         [w.db EXCEPT !.app_dlc =
            @ \cup {<<a, dlc_appids[i], "pics">> : i \in DOMAIN dlc_appids}])

\* sync_status.upsert({appid, last_pics_sync}, on_conflict="appid")
BumpSyncStatus(sync_status, appids, now) ==
  [a \in (DOMAIN sync_status) \cup appids |->
     IF a \in appids
     THEN [last_pics_sync |-> Some(now),
           last_storefront_sync |->
             IF a \in DOMAIN sync_status
             THEN sync_status[a].last_storefront_sync ELSE None]
     ELSE sync_status[a]]

\* _update_sync_status, for each appid of the batch in turn
RECURSIVE UpdateSyncStatusEach(_, _, _, _)
UpdateSyncStatusEach(w, F, appids, now) ==
  IF appids = <<>> THEN w
  ELSE UpdateSyncStatusEach(
         StoreCall(w, F, <<"status_one", Head(appids)>>,
           [w.db EXCEPT !.sync_status = BumpSyncStatus(@, {Head(appids)}, now)]),
         F, Tail(appids), now)

\* _batch_update_sync_status: one upsert for the batch (batches of 500),
\* and on its failure one upsert per appid
BatchUpdateSyncStatus(w, F, appids, now) ==
  IF appids = <<>> THEN w
  ELSE IF Failed(F, <<"status_batch", 0>>)
  THEN UpdateSyncStatusEach(Logged(w, <<"status_batch", 0>>, FALSE), F, appids, now)
  ELSE StoreCall(w, F, <<"status_batch", 0>>,
         [w.db EXCEPT !.sync_status = BumpSyncStatus(@, Range(appids), now)])

\* the body of the loop of _sync_relationships for one app (lines 391-415)
SyncRelationshipsOf(w, F, e) ==
  LET w1 == IF e.steam_deck # None
            THEN UpsertSteamDeck(w, F, e.appid, e.steam_deck[1]) ELSE w
      w2 == IF DOMAIN e.categories # {}
            THEN SyncCategories(w1, F, e.appid, e.categories) ELSE w1
      w3 == IF e.genres # <<>>
            THEN SyncGenres(w2, F, e.appid, e.genres, e.primary_genre) ELSE w2
      w4 == IF e.store_tags # <<>>
            THEN SyncStoreTags(w3, F, e.appid, e.store_tags) ELSE w3
      w5 == UpsertFranchiseLinks(w4, F, e.appid, e.associations)
      w6 == IF e.dlc_appids # <<>>
            THEN SyncDlcRelationships(w5, F, e.appid, e.dlc_appids) ELSE w5
  IN w6

\* the loop of _sync_relationships: no sub-step raises, so every app that
\* is in successful_appids is appended to processed_appids (line 418)
RECURSIVE SyncRelationshipsLoop(_, _, _, _, _)
SyncRelationshipsLoop(w, F, apps, successful_appids, processed) ==
  IF apps = <<>> THEN [w |-> w, processed_appids |-> processed]
  ELSE IF Head(apps).appid \notin successful_appids
  THEN SyncRelationshipsLoop(w, F, Tail(apps), successful_appids, processed)
  ELSE SyncRelationshipsLoop(SyncRelationshipsOf(w, F, Head(apps)), F,
         Tail(apps), successful_appids, Append(processed, Head(apps).appid))

\* a _sync_relationships that sets last_pics_sync before it syncs relations
SyncRelationshipsBumpFirst(w, F, apps, successful_appids, now) ==
  SyncRelationshipsLoop(
    BatchUpdateSyncStatus(w, F,
      SelectIn(AppIdsOf(apps), successful_appids), now),
    F, apps, successful_appids, <<>>).w

\* _sync_relationships
SyncRelationships(w, F, apps, successful_appids, now) ==
  LET r == SyncRelationshipsLoop(w, F, apps, successful_appids, <<>>)
  IN BatchUpdateSyncStatus(r.w, F, r.processed_appids, now)

\* a chunk loop that leaves the rows of a failed chunk out of the counts
RECURSIVE UpsertChunksUncounted(_, _, _, _, _)
UpsertChunksUncounted(w, F, recs, k, acc) ==
  IF recs = <<>> THEN [w |-> w, updated |-> acc.updated, failed |-> acc.failed,
                       successful_appids |-> acc.successful_appids]
  ELSE
    LET n == Min(UPSERT_BATCH_SIZE, Len(recs))
        batch == SubSeq(recs, 1, n)
        rest == SubSeq(recs, n + 1, Len(recs))
        ok == ~Failed(F, <<"apps_upsert", k>>)
        w1 == StoreCall(w, F, <<"apps_upsert", k>>,
                [w.db EXCEPT !.apps = UpsertRows(@, batch)])
    IN UpsertChunksUncounted(w1, F, rest, k + 1,
         IF ok
         THEN [updated |-> acc.updated + n, failed |-> acc.failed,
               successful_appids |->
                 acc.successful_appids \cup {batch[i].appid : i \in DOMAIN batch}]
         ELSE acc)

\* a chunk loop that takes the apps of a failed chunk for upserted
RECURSIVE UpsertChunksAllSuccessful(_, _, _, _, _)
UpsertChunksAllSuccessful(w, F, recs, k, acc) ==
  IF recs = <<>> THEN [w |-> w, updated |-> acc.updated, failed |-> acc.failed,
                       successful_appids |-> acc.successful_appids]
  ELSE
    LET n == Min(UPSERT_BATCH_SIZE, Len(recs))
        batch == SubSeq(recs, 1, n)
        rest == SubSeq(recs, n + 1, Len(recs))
        ok == ~Failed(F, <<"apps_upsert", k>>)
        w1 == StoreCall(w, F, <<"apps_upsert", k>>,
                [w.db EXCEPT !.apps = UpsertRows(@, batch)])
    IN UpsertChunksAllSuccessful(w1, F, rest, k + 1,
         [updated |-> acc.updated + (IF ok THEN n ELSE 0),
          failed |-> acc.failed + (IF ok THEN 0 ELSE n),
          successful_appids |->
            acc.successful_appids \cup {batch[i].appid : i \in DOMAIN batch}])

\* the loop of upsert_apps_batch over the chunks of app_records (229-238);
\* k is the index of the chunk
RECURSIVE UpsertChunks(_, _, _, _, _)
UpsertChunks(w, F, recs, k, acc) ==
  IF recs = <<>> THEN [w |-> w, updated |-> acc.updated, failed |-> acc.failed,
                       successful_appids |-> acc.successful_appids]
  ELSE
    LET n == Min(UPSERT_BATCH_SIZE, Len(recs))
        batch == SubSeq(recs, 1, n)
        rest == SubSeq(recs, n + 1, Len(recs))
        ok == ~Failed(F, <<"apps_upsert", k>>)
        w1 == StoreCall(w, F, <<"apps_upsert", k>>,
                [w.db EXCEPT !.apps = UpsertRows(@, batch)])
    IN UpsertChunks(w1, F, rest, k + 1,
         IF ok
         THEN [updated |-> acc.updated + n, failed |-> acc.failed,
               successful_appids |->
                 acc.successful_appids \cup {batch[i].appid : i \in DOMAIN batch}]
         ELSE [updated |-> acc.updated, failed |-> acc.failed + n,
               successful_appids |-> acc.successful_appids])

\* upsert_apps_batch. `order` is the iteration order of the set
\* successful_appids (line 241): a sequence holding every appid once.
UpsertAppsBatch(db, apps, now, F, order) ==
  LET w0 == [db |-> db, log |-> <<>>]
      zero == [created |-> 0, updated |-> 0, failed |-> 0, skipped |-> 0]
      ex == GetExistingAppids(w0, F, AppIdsOf(apps))
      apps_to_process == SelectSeq(apps, LAMBDA e : e.appid \in ex.result)
      skipped == Len(apps) - Len(apps_to_process)
      appids_to_process == AppIdsOf(apps_to_process)
      dates == GetAppsWithStorefrontDates(ex.w, F, appids_to_process)
      sync == GetAppsWithStorefrontSync(dates.w, F, appids_to_process)
      built == SelectSeq(apps_to_process, LAMBDA e : ~BuildRaises(e))
      build_failures == Len(apps_to_process) - Len(built)
      app_records == [i \in DOMAIN built |->
                        BuildAppRecord(built[i],
                          built[i].appid \in dates.result,
                          built[i].appid \in sync.result, now)]
      up == UpsertChunks(sync.w, F, app_records, 0,
              [updated |-> 0, failed |-> 0, successful_appids |-> {}])
      successful_apps ==
        [i \in DOMAIN SelectIn(order, up.successful_appids) |->
           LET a == SelectIn(order, up.successful_appids)[i]
           IN CHOOSE e \in Range(built) : e.appid = a]
      done == SyncRelationships(up.w, F, successful_apps, up.successful_appids, now)
  IN IF apps = <<>>
     THEN [db |-> db, log |-> <<>>, stats |-> zero, build_failures |-> 0]
     ELSE IF apps_to_process = <<>>
     THEN [db |-> ex.w.db, log |-> ex.w.log,
           stats |-> [zero EXCEPT !.skipped = skipped], build_failures |-> 0]
     ELSE [db |-> done.db, log |-> done.log,
           stats |-> [zero EXCEPT !.skipped = skipped, !.updated = up.updated,
                                  !.failed = up.failed],
           build_failures |-> build_failures]

(***************************************************************************)
(* Initial stores. The applist worker has created the rows of InitialApps; *)
(* the storefront ingester may have written release_date_raw and           *)
(* last_storefront_sync; an earlier PICS sync may have written relations.  *)
(***************************************************************************)
\* the apps row of an app: hasRaw says the storefront wrote its release date
InitialRow(hasRaw) ==
  [NullRow EXCEPT
     !.name = Some("Old name"),
     !.release_date = IF hasRaw THEN Some(19627) ELSE None,
     !.release_date_raw = IF hasRaw THEN Some("Sep 27, 2023") ELSE None]

\* the sync_status row of an app, by who has synced it so far
InitialStatus(who) ==
  [last_pics_sync |-> IF who \in {"pics", "both"} THEN Some(0) ELSE None,
   last_storefront_sync |-> IF who \in {"storefront", "both"} THEN Some(0) ELSE None]

\* the relation rows an earlier sync of FullRecord(a) has left
PriorTags(a) == {<<a, 1, 0>>, <<a, 19, 1>>, <<a, 4182, 2>>}
PriorCategories(a) == {<<a, 2>>}
PriorGenres(a) == {<<a, 1, FALSE>>, <<a, 25, TRUE>>}

Profiles == {"norow", "unsynced", "pics", "storefront", "both"}

\* the store in which app a has profile who[a] and raw[a]
InitialStore(who, raw) ==
  LET synced == {a \in InitialApps : who[a] \in {"pics", "both"}}
  IN [apps |-> [a \in InitialApps |-> InitialRow(raw[a])],
      sync_status |-> [a \in {x \in InitialApps : who[x] # "norow"} |->
                         InitialStatus(who[a])],
      app_steam_tags |-> UNION {PriorTags(a) : a \in synced},
      app_categories |-> UNION {PriorCategories(a) : a \in synced},
      app_genres |-> UNION {PriorGenres(a) : a \in synced},
      app_steam_deck |-> [a \in synced |-> "verified"],
      app_franchises |-> {<<a, 1>> : a \in synced},
      franchises |-> IF synced = {} THEN <<>> ELSE [n \in {"Half-Life"} |-> 1],
      app_dlc |-> {},
      steam_tags |-> IF synced = {} THEN {} ELSE {1, 19, 4182},
      steam_categories |-> IF synced = {} THEN {} ELSE {2},
      steam_genres |-> IF synced = {} THEN {} ELSE {1, 25}]

\* app 1 takes every profile; the other apps are unsynced or fully synced
InitialStores ==
  {InitialStore(who, [a \in InitialApps |-> IF a = 1 THEN raw1 ELSE who[a] = "both"]) :
     who \in {f \in [InitialApps -> Profiles] :
                \A a \in InitialApps \ {1} : f[a] \in {"unsynced", "both"}},
     raw1 \in BOOLEAN}

\* the sequences of distinct appids of length at most n
RECURSIVE DistinctSeqs(_, _)
DistinctSeqs(S, n) ==
  IF n = 0 THEN {<<>>}
  ELSE LET shorter == DistinctSeqs(S, n - 1)
           longer == {Append(q, a) : q \in shorter, a \in S}
       IN shorter \cup
            {q \in longer : \A i, j \in DOMAIN q : i # j => q[i] # q[j]}

\* the batches of extracted records over a sequence of appids
RECURSIVE RecordsOver(_)
RecordsOver(ids) ==
  IF ids = <<>> THEN {<<>>}
  ELSE {<<e>> \o rest : e \in Extracted(Head(ids)), rest \in RecordsOver(Tail(ids))}

Batches == UNION {RecordsOver(ids) : ids \in DistinctSeqs(AppIds, MaxBatch)}

\* the store calls an UpsertAppsBatch call over the appids `ids` can make
\* when the rows of `existing` are in apps
Sites(ids, existing) ==
  {<<k, 0>> : k \in {"select_existing", "select_dates", "select_sync", "status_batch"}}
  \cup {<<"apps_upsert", k>> : k \in 0 .. Cardinality(ids \cap existing) - 1}
  \cup {<<k, a>> :
          k \in {"deck_upsert", "categories_delete", "categories_lookup",
                 "categories_insert", "genres_delete", "genres_lookup",
                 "genres_insert", "tags_delete", "tags_lookup", "tags_insert",
                 "franchise_rpc", "franchise_link", "dlc_upsert", "status_one"},
          a \in ids \cap existing}

\* the sets of at most n failing sites
RECURSIVE FaultSets(_, _)
FaultSets(S, n) ==
  IF n = 0 THEN {{}}
  ELSE LET fewer == FaultSets(S, n - 1)
       IN fewer \cup {F \cup {x} : F \in fewer, x \in S}

\* the orders in which a set of appids can be iterated
Orders(S) == {q \in DistinctSeqs(S, Cardinality(S)) : Len(q) = Cardinality(S)}

NoCall ==
  [done |-> FALSE, batch |-> <<>>, before |-> <<>>, now |-> 0, log |-> <<>>,
   stats |-> [created |-> 0, updated |-> 0, failed |-> 0, skipped |-> 0],
   build_failures |-> 0, calls |-> 0, first_ok |-> FALSE]

(***************************************************************************)
(* PICSFetcher (steam/pics.py): what a call has done so far.               *)
(***************************************************************************)
\* the retry attempts of fetch_apps_batch per call (self.max_retries)
max_retries == 2

\* the window of fetch_all_apps (self.batch_size)
batch_size == 2

\* the length of the longest appid list given to fetch_all_apps
MaxAppids == 3

\* no call made yet. op: the call; pc: where it stands; attempt: the loop
\* variable of fetch_apps_batch; issued, failures: the get_product_info
\* requests sent and raised in this fetch_apps_batch; blind: one was sent
\* while the session was not connected; refused: reconnect() returned
\* False; result, value: how the call ended; appids, i, batch: the input
\* of fetch_all_apps, its offset and window; attempted, yielded,
\* failed_batches: its windows so far
FetcherIdle ==
  [op |-> "none", pc |-> "idle", attempt |-> 0, issued |-> 0, failures |-> 0,
   blind |-> FALSE, refused |-> FALSE, result |-> "pending", value |-> "none",
   appids |-> <<>>, i |-> 0, batch |-> <<>>, attempted |-> <<>>,
   yielded |-> <<>>, failed_batches |-> <<>>, finished |-> FALSE]

\* the bound on the auto-reconnect handler tasks spawned
MaxHandlers == 2

TaskIds == 0 .. MaxHandlers
Caller == 0
Handlers == 1 .. MaxHandlers

\* PICSSteamClient.__init__ (lines 17-35); the caller has made no call yet
\* and no handler task has been spawned
NoExtraction == [raw |-> <<>>, result |-> "none"]

NoBuild == [name |-> <<>>, type |-> <<>>, done |-> FALSE, row_type |-> <<>>]

NoPaging ==
  [pc |-> "idle", unsynced_only |-> FALSE, last_appid |-> 0, all_appids |-> <<>>,
   expected |-> <<>>, failed |-> FALSE, modified |-> FALSE]

BulkIdle == [pc |-> "idle", connected |-> FALSE]

NoReconnectCall == [max_attempts |-> 0, logins |-> 0, result |-> "none"]

SessionIdle ==
  /\ _client = None
  /\ _connected = FALSE
  /\ _auto_reconnect = TRUE
  /\ _reconnecting = FALSE
  /\ _heartbeat_greenlet = None
  /\ task = [t \in TaskIds |->
              [pc |-> IF t = Caller THEN "ready" ELSE "unborn", attempt |-> 0]]
  /\ fetcher = FetcherIdle
  /\ last_event = None
  /\ reconnect_call = NoReconnectCall
  /\ bulk = BulkIdle
  /\ extraction = NoExtraction
  /\ app_record = NoBuild
  /\ paging = NoPaging

(***************************************************************************)
(* The persister on its own: one UpsertAppsBatch call on a batch.          *)
(***************************************************************************)
\* the change monitor before ChangeMonitorWorker.run() (lines 27-36)
MonitorIdle ==
  /\ pc = "idle"
  /\ running = FALSE
  /\ last_change = 0
  /\ changes = None
  /\ change_queue = <<>>
  /\ processing_set = {}
  /\ queue_batch = <<>>
  /\ connected = FALSE
  /\ queue_before = <<>>
  /\ pending = {}
  /\ boot = [crashes |-> 0, read_failed |-> FALSE, wrote |-> FALSE]

PersisterInit ==
  /\ store \in InitialStores
  /\ clock = 1
  /\ \E b \in Batches : call = [NoCall EXCEPT !.batch = b]
  /\ MonitorIdle
  /\ SessionIdle
  /\ pics_sync_state = None
  /\ upstream = 0

\* PICSDatabase.upsert_apps_batch(call.batch)
UpsertAppsBatchCall ==
  /\ ~call.done
  /\ \E F \in FaultSets(Sites(Range(AppIdsOf(call.batch)), DOMAIN store.apps), MaxFaults),
        order \in Orders(Range(AppIdsOf(call.batch)) \cap DOMAIN store.apps) :
       \E r \in {UpsertAppsBatch(store, call.batch, clock, F, order)} :
          /\ store' = r.db
          /\ call' = [done |-> TRUE, batch |-> call.batch, before |-> store,
                      now |-> clock, log |-> r.log, stats |-> r.stats,
                      build_failures |-> r.build_failures, calls |-> 1,
                      first_ok |-> \A i \in DOMAIN r.log : r.log[i].ok]
  /\ clock' = clock + 1
  /\ UNCHANGED <<monitorVars, sessionVars>>

\* PICSDatabase.upsert_apps_batch(call.batch) once more, straight after the
\* first call and with every store call succeeding; call.before is then the
\* store the first call left
UpsertAppsBatchAgain ==
  /\ call.done
  /\ call.calls = 1
  /\ \E order \in Orders(Range(AppIdsOf(call.batch)) \cap DOMAIN store.apps) :
       \E r \in {UpsertAppsBatch(store, call.batch, clock, {}, order)} :
          /\ store' = r.db
          /\ call' = [call EXCEPT !.before = store, !.now = clock,
                                  !.log = r.log, !.stats = r.stats,
                                  !.build_failures = r.build_failures,
                                  !.calls = 2]
  /\ clock' = clock + 1
  /\ UNCHANGED <<monitorVars, sessionVars>>

PersisterNext ==
  \/ UpsertAppsBatchCall
  \/ UpsertAppsBatchAgain

PersisterSpec == PersisterInit /\ [][PersisterNext]_vars

(***************************************************************************)
(* What a finished UpsertAppsBatch call did, read from `call` and `store`. *)
(***************************************************************************)
BatchAppIds == Range(AppIdsOf(call.batch))

\* the call set sync_status(a).last_pics_sync
Bumped(a) ==
  /\ a \in DOMAIN store.sync_status
  /\ store.sync_status[a].last_pics_sync = Some(call.now)

\* the call wrote the apps row of a
RowUpserted(a) ==
  /\ a \in DOMAIN store.apps
  /\ store.apps[a].updated_at = call.now

RelationKinds ==
  {"deck_upsert", "categories_delete", "categories_lookup", "categories_insert",
   "genres_delete", "genres_lookup", "genres_insert", "tags_delete",
   "tags_lookup", "tags_insert", "franchise_rpc", "franchise_link", "dlc_upsert"}

\* a store call of a relation sub-step of app a was made and failed
RelationCallFailed(a) ==
  \E i \in DOMAIN call.log :
    /\ call.log[i].site[1] \in RelationKinds
    /\ call.log[i].site[2] = a
    /\ ~call.log[i].ok

\* the store call of kind k was made and failed
CallFailed(k) ==
  \E i \in DOMAIN call.log : call.log[i].site[1] = k /\ ~call.log[i].ok

(***************************************************************************)
(* C1: UpsertAppsBatch sets sync_status.last_pics_sync for an appid only   *)
(* if the upsert of its apps row succeeded and every relation sub-step of  *)
(* the app succeeded: an app with a failed relation store call gets no     *)
(* last_pics_sync bump in that call.                                       *)
(***************************************************************************)
C1_BumpOnlyAfterRelationSync ==
  call.done =>
    \A a \in BatchAppIds :
      Bumped(a) => RowUpserted(a) /\ ~RelationCallFailed(a)

(***************************************************************************)
(* C9: if apps(a).release_date_raw is non-null when UpsertAppsBatch        *)
(* processes app a, apps(a).release_date is the same after the call as     *)
(* before it, whatever the extractor supplied and whatever store queries   *)
(* fail during the call.                                                   *)
(***************************************************************************)
C9_StorefrontDateKept ==
  call.done =>
    \A a \in BatchAppIds \cap DOMAIN call.before.apps :
      call.before.apps[a].release_date_raw # None =>
        store.apps[a].release_date = call.before.apps[a].release_date

(***************************************************************************)
(* C10: if sync_status(a).last_storefront_sync is non-null when            *)
(* UpsertAppsBatch processes app a, apps(a).is_free and apps(a).is_released *)
(* are the same after the call as before it.                               *)
(***************************************************************************)
C10_StorefrontFlagsKept ==
  call.done =>
    \A a \in BatchAppIds \cap DOMAIN call.before.apps :
      (/\ a \in DOMAIN call.before.sync_status
       /\ call.before.sync_status[a].last_storefront_sync # None) =>
        /\ store.apps[a].is_free = call.before.apps[a].is_free
        /\ store.apps[a].is_released = call.before.apps[a].is_released

\* the rows of the relation tables and of sync_status that belong to app a
RowsOf(db, a) ==
  [app_steam_tags |-> {r \in db.app_steam_tags : r[1] = a},
   app_categories |-> {r \in db.app_categories : r[1] = a},
   app_genres |-> {r \in db.app_genres : r[1] = a},
   app_steam_deck |-> IF a \in DOMAIN db.app_steam_deck
                      THEN Some(db.app_steam_deck[a]) ELSE None,
   app_franchises |-> {r \in db.app_franchises : r[1] = a},
   app_dlc |-> {r \in db.app_dlc : r[1] = a},
   sync_status |-> IF a \in DOMAIN db.sync_status
                   THEN Some(db.sync_status[a]) ELSE None]

\* app a has no row in any relation table and none in sync_status
NoRowsOf(db, a) ==
  RowsOf(db, a) =
    [app_steam_tags |-> {}, app_categories |-> {}, app_genres |-> {},
     app_steam_deck |-> None, app_franchises |-> {}, app_dlc |-> {},
     sync_status |-> None]

\* the appids of the batch that had no row in apps when the call began
MissingAppIds == BatchAppIds \ DOMAIN call.before.apps

(***************************************************************************)
(* C11: an appid of the batch that has no row in apps is counted in        *)
(* skipped, not in updated or failed, and UpsertAppsBatch writes nothing   *)
(* for it: no apps row, no row in any relation table, no sync_status row.  *)
(***************************************************************************)
C11_MissingAppSkipped ==
  call.done =>
    /\ call.stats.skipped >= Cardinality(MissingAppIds)
    /\ call.stats.updated + call.stats.failed
          <= Len(call.batch) - Cardinality(MissingAppIds)
    /\ ~CallFailed("select_existing") =>
          call.stats.skipped = Cardinality(MissingAppIds)
    /\ \A a \in MissingAppIds :
          /\ a \notin DOMAIN store.apps
          /\ NoRowsOf(store, a)

\* a call on a batch of an app without a row and an app with one, which
\* skipped the one and updated the other
C11_Witness ==
  /\ call.done
  /\ MissingAppIds # {}
  /\ call.stats.skipped = 1
  /\ call.stats.updated = 1

(***************************************************************************)
(* C12: for every batch B and every combination of missing apps, record    *)
(* build failures and failed upsert chunks, the result of UpsertAppsBatch  *)
(* satisfies skipped + updated + failed + build_failures = |B|.            *)
(***************************************************************************)
C12_Accounting ==
  call.done =>
    call.stats.skipped + call.stats.updated + call.stats.failed
      + call.build_failures = Len(call.batch)

\* a call in which one record failed to build and the upsert chunk of the
\* other failed
C12_Witness ==
  /\ call.done
  /\ call.build_failures = 1
  /\ call.stats.failed = 1
  /\ CallFailed("apps_upsert")

\* no store call of the finished call failed
NoCallFailed == \A i \in DOMAIN call.log : call.log[i].ok

\* the relation rows that the extracted record e stands for
TagRowsOf(e) == {<<e.appid, e.store_tags[i], i - 1>> : i \in DOMAIN e.store_tags}
CategoryRowsOf(e) == {<<e.appid, c>> : c \in {x \in DOMAIN e.categories : e.categories[x]}}
GenreRowsOf(e) == {<<e.appid, e.genres[i]>> : i \in DOMAIN e.genres}

(***************************************************************************)
(* C13: after UpsertAppsBatch has synced app a from the extracted record e *)
(* with every store call succeeding, the relation rows of a are exactly    *)
(* those of e: app_steam_tags(a) is {(a, e.store_tags[i], i)} with ranks   *)
(* dense from 0, app_categories(a) the enabled categories of e and         *)
(* app_genres(a) the genres of e; rows of an earlier sync that are not in  *)
(* e are gone, also when a list of e is shorter than before or empty.      *)
(***************************************************************************)
C13_RelationsEqualRecord ==
  (call.done /\ NoCallFailed) =>
    \A i \in DOMAIN call.batch :
      LET e == call.batch[i]
          rows == RowsOf(store, e.appid)
      IN Bumped(e.appid) =>
           /\ rows.app_steam_tags = TagRowsOf(e)
           /\ rows.app_categories = CategoryRowsOf(e)
           /\ {<<r[1], r[2]>> : r \in rows.app_genres} = GenreRowsOf(e)

\* the store with the timestamps the persister writes set aside
WithoutTimestamps(db) ==
  [db EXCEPT
     !.apps = [a \in DOMAIN @ |-> [@[a] EXCEPT !.updated_at = 0]],
     !.sync_status = [a \in DOMAIN @ |-> [@[a] EXCEPT !.last_pics_sync = None]]]

(***************************************************************************)
(* C14: UpsertAppsBatch is idempotent: applying it twice in succession on  *)
(* the same extracted records, with no other writer in between and every   *)
(* store call succeeding, leaves the store as one application left it,     *)
(* apps.updated_at and the sync timestamps aside.                          *)
(***************************************************************************)
C14_Idempotent ==
  (call.calls = 2 /\ call.first_ok) =>
    WithoutTimestamps(store) = WithoutTimestamps(call.before)

\* a second call that updated the row of an app and rewrote the tag rows
\* the first call had written
C14_Witness ==
  /\ call.calls = 2
  /\ call.first_ok
  /\ call.stats.updated >= 1
  /\ \E i \in DOMAIN call.batch :
        /\ Bumped(call.batch[i].appid)
        /\ call.batch[i].store_tags = <<19, 1>>
        /\ RowsOf(store, call.batch[i].appid).app_steam_tags = TagRowsOf(call.batch[i])

(***************************************************************************)
(* The change monitor (workers/change_monitor.py).                         *)
(***************************************************************************)
\* deque(maxlen=max_queue_size).append: a full deque drops its head
DequeAppend(q, x) ==
  IF Len(q) >= max_queue_size THEN Append(Tail(q), x) ELSE Append(q, x)

\* variant: a plain list and no capacity test
EnqueueAllUnbounded(q, apps) == q \o apps

\* variant: no capacity test, the deque's maxlen alone bounds the queue
RECURSIVE EnqueueAllEvicting(_, _)
EnqueueAllEvicting(q, apps) ==
  IF apps = <<>> THEN q
  ELSE EnqueueAllEvicting(DequeAppend(q, Head(apps)), Tail(apps))

\* for appid in apps: if len(queue) < max_queue_size: queue.append(appid)
\* (lines 71-73 and 152-154)
RECURSIVE EnqueueAll(_, _)
EnqueueAll(q, apps) ==
  IF apps = <<>> THEN q
  ELSE EnqueueAll(
         IF Len(q) < max_queue_size THEN DequeAppend(q, Head(apps)) ELSE q,
         Tail(apps))

\* new_apps (lines 65-69)
NewApps(app_changes, processing) ==
  SelectSeq(app_changes, LAMBDA a : a \notin processing)

\* variant: a delta at the cursor counts as new
DeltaAdvancesOrEqual(c, last) == c # None /\ c[1].change_number >= last

\* the test of line 63
DeltaAdvances(c, last) == c # None /\ c[1].change_number > last

\* variant: the result carries the change that follows `since`
ChangesResultNext(current, since, apps) ==
  Some([change_number |-> since + 1, app_changes |-> apps])

\* PICSFetcher.get_changes_since(since), lines 157-161: the upstream's
\* current change number and the appids of its app changes
ChangesResult(current, since, apps) ==
  Some([change_number |-> current, app_changes |-> apps])

\* PICSDatabase.get_last_change_number: 0 when the read fails or finds no row
GetLastChangeNumber(state, readFails) ==
  IF readFails \/ state = None THEN 0 ELSE state[1]

\* PICSDatabase.set_last_change_number: a failed write is logged and dropped
SetLastChangeNumber(state, n, writeFails) ==
  IF writeFails THEN state ELSE Some(n)

\* the set S as a sequence in ascending order
RECURSIVE Ascending(_)
Ascending(S) ==
  IF S = {} THEN <<>>
  ELSE LET m == CHOOSE x \in S : \A y \in S : x <= y
       IN <<m>> \o Ascending(S \ {m})

\* the record the extractor delivers for an app in a monitor run
MonitorRecord(a) == EmptyRecord(a)

\* the store calls UpsertAppsBatch can make for such records: they carry no
\* relations, so no relation sub-step calls the store
MonitorSites(ids, existing) ==
  {x \in Sites(ids, existing) : x[1] \notin RelationKinds}

\* the apps of `ids` whose last_pics_sync the call of result r set
BumpedBy(r, ids, now) ==
  {a \in ids : /\ a \in DOMAIN r.db.sync_status
               /\ r.db.sync_status[a].last_pics_sync = Some(now)}

\* ChangeMonitorWorker.run up to the main loop (lines 44-55): connect,
\* then read the cursor. A failed connect raises and ends the process.
StartRun ==
  /\ UNCHANGED <<sessionVars, queue_batch>>
  /\ pc = "idle"
  /\ running' = TRUE
  /\ \/ /\ connected' = TRUE
        /\ \E readFails \in BOOLEAN :
             /\ last_change' = GetLastChangeNumber(pics_sync_state, readFails)
             /\ boot' = [boot EXCEPT !.read_failed = readFails, !.wrote = FALSE]
        /\ pc' = "poll"
     \/ /\ connected' = FALSE
        /\ pc' = "failed"
        /\ UNCHANGED <<last_change, boot>>
  /\ UNCHANGED <<store, pics_sync_state, clock, call, changes, change_queue,
                 processing_set, upstream, queue_before, pending>>

\* the loop test of line 58 when _running is false, and the cleanup of
\* line 114
ExitLoop ==
  /\ UNCHANGED <<sessionVars, queue_batch>>
  /\ pc = "poll"
  /\ ~running
  /\ connected' = FALSE
  /\ pc' = "stopped"
  /\ UNCHANGED <<store, pics_sync_state, clock, call, running, last_change,
                 changes, change_queue, processing_set, upstream, queue_before,
                 pending, boot>>

\* line 61: fetcher.get_changes_since(last_change). It raises when the
\* session is not connected; an upstream error or an empty response gives
\* None; otherwise the upstream's current change number, which never
\* decreases, and a list of apps.
PollChanges ==
  /\ UNCHANGED <<sessionVars, queue_batch>>
  /\ pc = "poll"
  /\ running
  /\ \/ /\ ~connected
        /\ pc' = "error"
        /\ UNCHANGED changes
        /\ UNCHANGED upstream
     \/ /\ connected
        /\ changes' = None
        /\ pc' = "handle"
        /\ UNCHANGED upstream
     \/ /\ connected
        /\ \E current \in upstream .. MaxChange,
              apps \in DistinctSeqs(ChangedAppIds, MaxDelta) :
             /\ upstream' = current
             /\ changes' = ChangesResult(current, last_change, apps)
        /\ pc' = "handle"
  /\ UNCHANGED <<store, pics_sync_state, clock, call, running, last_change,
                 change_queue, processing_set, connected,
                 queue_before, pending, boot>>

\* a handler of the delta that advances the cursor without queueing
HandleChangesNotQueueing ==
  /\ UNCHANGED <<sessionVars, queue_batch>>
  /\ pc = "handle"
  /\ IF DeltaAdvances(changes, last_change)
     THEN /\ queue_before' = change_queue
          /\ last_change' = changes[1].change_number
          /\ pc' = "write"
          /\ UNCHANGED <<change_queue, pending>>
     ELSE /\ pc' = "process"
          /\ UNCHANGED <<change_queue, queue_before, pending, last_change>>
  /\ UNCHANGED <<store, pics_sync_state, clock, call, running, changes,
                 processing_set, upstream, connected, boot>>

\* lines 63-81: queue the changed apps and advance the local cursor
HandleChanges ==
  /\ UNCHANGED <<sessionVars, queue_batch>>
  /\ pc = "handle"
  /\ IF DeltaAdvances(changes, last_change)
     THEN /\ change_queue' =
               EnqueueAll(change_queue, NewApps(changes[1].app_changes, processing_set))
          /\ queue_before' = change_queue
          /\ pending' = pending \cup
               Range(SubSeq(change_queue', Len(change_queue) + 1, Len(change_queue')))
          /\ last_change' = changes[1].change_number
          /\ pc' = "write"
     ELSE /\ pc' = "process"
          /\ UNCHANGED <<change_queue, queue_before, pending, last_change>>
  /\ UNCHANGED <<store, pics_sync_state, clock, call, running, changes,
                 processing_set, upstream, connected, boot>>

\* a cursor write whose failure takes back the cursor and the appids queued
WriteCursorRollingBack ==
  /\ UNCHANGED <<sessionVars, queue_batch>>
  /\ pc = "write"
  /\ \E writeFails \in BOOLEAN :
       /\ pics_sync_state' = SetLastChangeNumber(pics_sync_state, last_change, writeFails)
       /\ boot' = [boot EXCEPT !.wrote = @ \/ ~writeFails]
       /\ last_change' = IF writeFails
                         THEN GetLastChangeNumber(pics_sync_state, FALSE)
                         ELSE last_change
       /\ change_queue' = IF writeFails THEN queue_before ELSE change_queue
  /\ pc' = "process"
  /\ UNCHANGED <<store, clock, call, running, changes,
                 processing_set, upstream, connected,
                 queue_before, pending>>

\* line 82: db.set_last_change_number(last_change)
WriteCursor ==
  /\ UNCHANGED <<sessionVars, queue_batch>>
  /\ pc = "write"
  /\ \E writeFails \in BOOLEAN :
       /\ pics_sync_state' = SetLastChangeNumber(pics_sync_state, last_change, writeFails)
       /\ boot' = [boot EXCEPT !.wrote = @ \/ ~writeFails]
  /\ pc' = "process"
  /\ UNCHANGED <<store, clock, call, running, last_change, changes,
                 change_queue, processing_set, upstream, connected,
                 queue_before, pending>>

\* a _process_queue whose batch stays in the processing set
DiscardNone(processing, b) == processing

\* the finally of _process_queue (lines 155-158)
Discard(processing, b) == processing \ Range(b)

\* a _process_queue that copies its batch and leaves it in the queue
ProcessQueueCopying ==
  /\ UNCHANGED sessionVars
  /\ pc = "process"
  /\ IF change_queue = <<>>
     THEN /\ pc' = "sleep"
          /\ changes' = None
          /\ queue_before' = <<>>
          /\ UNCHANGED <<processing_set, queue_batch>>
     ELSE /\ queue_batch' =
               SubSeq(change_queue, 1, Min(process_batch_size, Len(change_queue)))
          /\ processing_set' = processing_set \cup Range(queue_batch')
          /\ pc' = "batch"
          /\ UNCHANGED <<changes, queue_before>>
  /\ UNCHANGED <<store, pics_sync_state, clock, call, running, last_change,
                 change_queue, upstream, connected, pending, boot>>

\* _process_queue, called at line 85, up to its fetch (lines 118-133): with
\* an empty queue it returns at once; otherwise it drains a batch from the
\* head of the queue into the processing set and calls fetch_apps_batch
ProcessQueue ==
  /\ UNCHANGED sessionVars
  /\ pc = "process"
  /\ IF change_queue = <<>>
     THEN /\ pc' = "sleep"
          /\ changes' = None
          /\ queue_before' = <<>>
          /\ UNCHANGED <<change_queue, processing_set, queue_batch>>
     ELSE LET n == Min(process_batch_size, Len(change_queue))
          IN /\ queue_batch' = SubSeq(change_queue, 1, n)
             /\ change_queue' = SubSeq(change_queue, n + 1, Len(change_queue))
             /\ processing_set' = processing_set \cup Range(queue_batch')
             /\ pc' = "batch"
             /\ UNCHANGED <<changes, queue_before>>
  /\ UNCHANGED <<store, pics_sync_state, clock, call, running, last_change,
                 upstream, connected, pending, boot>>

\* the rest of _process_queue (lines 133-158): fetch, extract and persist
\* the batch; a raised error re-queues the batch; the batch leaves the
\* processing set on every path.
\*   fetch_apps_batch reconnects first when the session is down and raises
\*   when that fails; otherwise it raises (retries exhausted) or returns
\*   the records of some of the apps. Extracting a record may raise, which
\*   skips the app. upsert_apps_batch returns normally.
ProcessBatch ==
  /\ UNCHANGED sessionVars
  /\ pc = "batch"
  /\ pc' = "sleep"
  /\ changes' = None
  /\ queue_before' = <<>>
  /\ queue_batch' = <<>>
  /\ processing_set' = Discard(processing_set, queue_batch)
  /\ \/ \* the fetch raises: re-queue the batch (lines 149-154)
        /\ connected' \in (IF connected THEN {TRUE} ELSE BOOLEAN)
        /\ change_queue' = EnqueueAll(change_queue, queue_batch)
        /\ UNCHANGED <<store, clock, pending>>
     \/ \* the fetch returns; nothing is extracted
        /\ connected' = TRUE
        /\ UNCHANGED <<store, clock, pending, change_queue>>
     \/ \* the fetch returns; the apps of `got` are extracted and upserted
        /\ connected' = TRUE
        /\ clock < MaxClock
        /\ \E got \in (SUBSET Range(queue_batch)) \ {{}} :
           \E F \in FaultSets(MonitorSites(got, DOMAIN store.apps), MaxFaults),
              order \in Orders(got \cap DOMAIN store.apps) :
           \E r \in {UpsertAppsBatch(store,
                        [i \in DOMAIN Ascending(got) |->
                           MonitorRecord(Ascending(got)[i])],
                        clock, F, order)} :
             /\ store' = r.db
             /\ pending' = pending \ BumpedBy(r, got, clock)
        /\ clock' = clock + 1
        /\ UNCHANGED change_queue
  /\ UNCHANGED <<pics_sync_state, call, running, last_change, upstream, boot>>

\* lines 88-99: publish the health status and sleep poll_interval
Sleep ==
  /\ UNCHANGED <<sessionVars, queue_batch>>
  /\ pc = "sleep"
  /\ pc' = "poll"
  /\ UNCHANGED <<store, pics_sync_state, clock, call, running, last_change,
                 changes, change_queue, processing_set, upstream, connected,
                 queue_before, pending, boot>>

\* an error handler that lets the error end run()
HandleErrorRaises ==
  /\ UNCHANGED <<sessionVars, queue_batch>>
  /\ pc = "error"
  /\ pc' = "failed"
  /\ UNCHANGED <<store, pics_sync_state, clock, call, running, last_change,
                 changes, change_queue, processing_set, upstream, connected,
                 queue_before, pending, boot>>

\* lines 101-111: the handler of an error raised in the loop body. With the
\* session connected it sleeps and the loop goes on. Otherwise it calls
\* reconnect(): that returns False at once when the session's own handler is
\* reconnecting (and the loop goes on after a sleep), else it enters its loop
HandleError ==
  /\ UNCHANGED <<sessionVars, queue_batch>>
  /\ pc = "error"
  /\ pc' \in (IF connected THEN {"poll"} ELSE {"poll", "reconnect_wait"})
  /\ UNCHANGED <<store, pics_sync_state, clock, call, running, last_change,
                 changes, change_queue, processing_set, upstream, connected,
                 queue_before, pending, boot>>

\* reconnect() inside the error handler: its backoff sleep is over and it
\* logs in (client.py lines 99-104)
ReconnectWaitOver ==
  /\ UNCHANGED <<sessionVars, queue_batch>>
  /\ pc = "reconnect_wait"
  /\ pc' = "reconnect_login"
  /\ UNCHANGED <<store, pics_sync_state, clock, call, running, last_change,
                 changes, change_queue, processing_set, upstream, connected,
                 queue_before, pending, boot>>

\* the login of that reconnect() answers (client.py lines 104-111): accepted,
\* reconnect() returns True and the loop goes on; refused, reconnect() goes
\* round its own loop, which has no limit and does not read _running
ReconnectLoginResult ==
  /\ UNCHANGED <<sessionVars, queue_batch>>
  /\ pc = "reconnect_login"
  /\ \E ok \in BOOLEAN :
       /\ connected' = ok
       /\ pc' = IF ok THEN "poll" ELSE "reconnect_wait"
  /\ UNCHANGED <<store, pics_sync_state, clock, call, running, last_change,
                 changes, change_queue, processing_set, upstream,
                 queue_before, pending, boot>>

MonitorActive ==
  pc \in {"poll", "handle", "write", "process", "batch", "sleep", "error",
          "reconnect_wait", "reconnect_login"}

\* ChangeMonitorWorker.stop (lines 160-163)
Stop ==
  /\ UNCHANGED <<sessionVars, queue_batch>>
  /\ MonitorActive
  /\ running
  /\ running' = FALSE
  /\ UNCHANGED <<store, pics_sync_state, clock, call, pc, last_change,
                 changes, change_queue, processing_set, upstream, connected,
                 queue_before, pending, boot>>

\* SIGTERM or SIGINT while run() is in its loop (main.py lines 51-56, 91-92):
\* the handler runs on run()'s own thread, calls stop() and then sys.exit(0);
\* SystemExit is not an Exception, so no handler of run() catches it: run()
\* is left where it stands (the finally of _process_queue runs if a batch is
\* in flight), main's finally stops the health server and the process exits
signal_handler ==
  /\ UNCHANGED sessionVars
  /\ MonitorActive
  /\ running' = FALSE
  /\ pc' = "exited"
  /\ processing_set' = Discard(processing_set, queue_batch)
  /\ queue_batch' = <<>>
  /\ UNCHANGED <<store, pics_sync_state, clock, call, last_change,
                 changes, change_queue, upstream, connected,
                 queue_before, pending, boot>>

\* a disconnect event of the session
SessionLost ==
  /\ UNCHANGED <<sessionVars, queue_batch>>
  /\ MonitorActive
  /\ connected
  /\ connected' = FALSE
  /\ UNCHANGED <<store, pics_sync_state, clock, call, pc, running,
                 last_change, changes, change_queue, processing_set,
                 upstream, queue_before, pending, boot>>

\* the session's auto-reconnect task has logged in again
SessionRestored ==
  /\ UNCHANGED <<sessionVars, queue_batch>>
  /\ MonitorActive
  /\ pc \notin {"reconnect_wait", "reconnect_login"}
  /\ ~connected
  /\ connected' = TRUE
  /\ UNCHANGED <<store, pics_sync_state, clock, call, pc, running,
                 last_change, changes, change_queue, processing_set,
                 upstream, queue_before, pending, boot>>

\* the process dies and is started again: a new ChangeMonitorWorker
\* (lines 27-36), the store as it is
CrashAndRestart ==
  /\ UNCHANGED <<sessionVars, queue_batch>>
  /\ MonitorActive
  /\ boot.crashes < MaxCrashes
  /\ pc' = "idle"
  /\ running' = FALSE
  /\ last_change' = 0
  /\ changes' = None
  /\ change_queue' = <<>>
  /\ processing_set' = {}
  /\ queue_batch' = <<>>
  /\ connected' = FALSE
  /\ queue_before' = <<>>
  /\ pending' = {}
  /\ boot' = [crashes |-> boot.crashes + 1, read_failed |-> FALSE, wrote |-> FALSE]
  /\ UNCHANGED <<store, pics_sync_state, clock, call, upstream>>

\* the store of a monitor run: the apps of InitialApps, none synced
MonitorStore ==
  InitialStore([a \in InitialApps |-> "unsynced"], [a \in InitialApps |-> FALSE])

Init ==
  /\ store = MonitorStore
  /\ clock = 1
  /\ call = NoCall
  /\ MonitorIdle
  /\ SessionIdle
  /\ upstream \in 0 .. 1
  /\ pics_sync_state \in {None} \cup {Some(n) : n \in 0 .. upstream}

Next ==
  \/ StartRun
  \/ ExitLoop
  \/ PollChanges
  \/ HandleChanges
  \/ WriteCursor
  \/ ProcessQueue
  \/ ProcessBatch
  \/ Sleep
  \/ HandleError
  \/ ReconnectWaitOver
  \/ ReconnectLoginResult
  \/ Stop
  \/ signal_handler
  \/ SessionLost
  \/ SessionRestored
  \/ CrashAndRestart

Spec == Init /\ [][Next]_vars

(***************************************************************************)
(* The upstream session (steam/client.py, PICSSteamClient). Its tasks are  *)
(* greenlets: a task runs until it waits (gevent.sleep, a call to the      *)
(* Steam network), so one action is the code between two waits.            *)
(***************************************************************************)
\* reconnect's backoff counter starts over after this many failed attempts
\* (line 109)
MaxAttemptsArg == 10

BackoffResetAfter == 10

\* self._reconnect_delay and self._max_reconnect_delay, in seconds
_reconnect_delay == 5
_max_reconnect_delay == 300

\* a backoff delay that is not clamped
ReconnectDelayUnclamped(attempt) == _reconnect_delay * 2 ^ (attempt - 1)

\* the delay reconnect sleeps before its attempt number `attempt`
\* (client.py 88-99)
ReconnectDelay(attempt) ==
  Min(_reconnect_delay * 2 ^ (attempt - 1), _max_reconnect_delay)

\* _stop_heartbeat (lines 151-156): the task is killed and forgotten
StopHeartbeat(hb) == None

\* _start_heartbeat (lines 143-149): a fresh task replaces the one there is
StartHeartbeat(hb) == Some("sleeping")

\* is_connected (lines 219-222)
IsConnected == _connected /\ _client # None

\* a connection test that finds the session connected whatever its state
NotConnectedNever == FALSE

\* the session is not connected and no request can be sent (pics.py 56)
NotConnected == ~IsConnected

\* fetch_apps_batch sends get_product_info (pics.py 62) and awaits the
\* response; connected_now says whether the session is connected then
Issued(f, connected_now) ==
  [f EXCEPT !.pc = "waiting", !.issued = @ + 1, !.blind = @ \/ ~connected_now]

\* where a task stands once the call it was in has returned: a reconnect()
\* made by fetch_apps_batch returns into it
Returned(t) ==
  IF t # Caller THEN "done"
  ELSE IF fetcher.pc = "reconnect" THEN "fetching" ELSE "ready"

\* connect() called by the caller (lines 37-50): a new SteamClient, then
\* its anonymous login is awaited. The workers call it once, before any
\* other call on the session (change_monitor.py 48, bulk_sync.py 46)
Connect ==
  /\ task[Caller].pc = "ready"
  /\ _client = None
  /\ _client' = Some("client")
  /\ task' = [task EXCEPT ![Caller].pc = "login"]
  /\ UNCHANGED <<_connected, _auto_reconnect, _reconnecting, _heartbeat_greenlet>>
  /\ UNCHANGED <<persisterVars, monitorVars, extraction, app_record, paging, bulk, reconnect_call, fetcher, last_event>>

\* the anonymous login of connect() ends (lines 50-69), in connect() itself
\* or inside reconnect (lines 104-116). When connect() itself returns False
\* the worker raises and makes no further call (change_monitor.py 48-49)
\* the test of reconnect's loop (line 89)
LoopGoesOn(max_attempts, attempt) == max_attempts = 0 \/ attempt < max_attempts

\* the max_attempts of the reconnect() that task t is in: the handlers call
\* reconnect() with the default, 0
MaxAttemptsOf(t) == IF t = Caller THEN reconnect_call.max_attempts ELSE 0

LoginResult(t) ==
  /\ task[t].pc \in {"login", "relogin"}
  /\ \E ok \in BOOLEAN :
       IF ok
       THEN /\ _connected' = TRUE
            /\ _reconnecting' = FALSE
            /\ _heartbeat_greenlet' = StartHeartbeat(_heartbeat_greenlet)
            /\ task' = [task EXCEPT ![t] = [pc |-> Returned(t), attempt |-> 0]]
            /\ fetcher' = IF t = Caller /\ fetcher.pc = "reconnect"
                          THEN Issued(fetcher, TRUE) ELSE fetcher
            /\ reconnect_call' = IF t = Caller /\ task[t].pc = "relogin"
                                 THEN [reconnect_call EXCEPT !.result = "true"]
                                 ELSE reconnect_call
       ELSE /\ IF task[t].pc = "login"
               THEN /\ task' = [task EXCEPT ![t].pc = "exited"]
                    /\ UNCHANGED <<_reconnecting, reconnect_call>>
               ELSE LET attempt == IF task[t].attempt % BackoffResetAfter = 0
                                   THEN 0 ELSE task[t].attempt
                    IN  IF LoopGoesOn(MaxAttemptsOf(t), attempt)
                        THEN /\ task' = [task EXCEPT ![t] =
                                          [pc |-> "backoff", attempt |-> attempt + 1]]
                             /\ UNCHANGED <<_reconnecting, reconnect_call>>
                        ELSE /\ task' = [task EXCEPT ![t] =
                                          [pc |-> Returned(t), attempt |-> 0]]
                             /\ _reconnecting' = FALSE
                             /\ reconnect_call' =
                                  [reconnect_call EXCEPT !.result = "false"]
            /\ UNCHANGED <<_connected, _heartbeat_greenlet, fetcher>>
  /\ UNCHANGED <<_client, _auto_reconnect>>
  /\ UNCHANGED <<persisterVars, monitorVars, extraction, app_record, paging, bulk, last_event>>

\* a reconnect() that starts its loop whether or not one is in progress
ReconnectUnguarded ==
  /\ task[Caller].pc = "ready"
  /\ _reconnecting' = TRUE
  /\ task' = [task EXCEPT ![Caller] = [pc |-> "backoff", attempt |-> 1]]
  /\ reconnect_call' = NoReconnectCall
  /\ UNCHANGED <<_client, _connected, _auto_reconnect, _heartbeat_greenlet>>
  /\ UNCHANGED <<persisterVars, monitorVars, extraction, app_record, paging, bulk, fetcher, last_event>>

\* reconnect() called by the caller (lines 81-99) while no reconnection is
\* in progress: the first backoff delay starts
Reconnect ==
  /\ task[Caller].pc = "ready"
  /\ ~_reconnecting
  /\ _reconnecting' = TRUE
  /\ task' = [task EXCEPT ![Caller] = [pc |-> "backoff", attempt |-> 1]]
  /\ reconnect_call' = NoReconnectCall
  /\ UNCHANGED <<_client, _connected, _auto_reconnect, _heartbeat_greenlet>>
  /\ UNCHANGED <<persisterVars, monitorVars, extraction, app_record, paging, bulk, fetcher, last_event>>

\* reconnect(max_attempts) called with a limit (lines 71-89)
ReconnectLimited ==
  /\ task[Caller].pc = "ready"
  /\ ~_reconnecting
  /\ _reconnecting' = TRUE
  /\ task' = [task EXCEPT ![Caller] = [pc |-> "backoff", attempt |-> 1]]
  /\ \E n \in 1 .. MaxAttemptsArg :
       reconnect_call' = [NoReconnectCall EXCEPT !.max_attempts = n]
  /\ UNCHANGED <<_client, _connected, _auto_reconnect, _heartbeat_greenlet>>
  /\ UNCHANGED <<persisterVars, monitorVars, extraction, app_record, paging, bulk, fetcher, last_event>>

\* reconnect() called by the caller while a reconnection is in progress
\* (lines 81-83): it returns False at once
ReconnectRefused ==
  /\ task[Caller].pc = "ready"
  /\ _reconnecting
  /\ fetcher' = [FetcherIdle EXCEPT !.op = "reconnect", !.refused = TRUE,
                                    !.result = "returned", !.value = "false"]
  /\ UNCHANGED <<_client, _connected, _auto_reconnect, _reconnecting,
                 _heartbeat_greenlet, task>>
  /\ UNCHANGED <<persisterVars, monitorVars, extraction, app_record, paging, bulk, reconnect_call, last_event>>

\* the backoff delay of reconnect is over (lines 99-104): _cleanup_client,
\* then connect() makes a new SteamClient and awaits its login
BackoffOver(t) ==
  /\ task[t].pc = "backoff"
  /\ MaxAttemptsOf(t) = 0 \/ reconnect_call.logins <= reconnect_call.max_attempts
  /\ _heartbeat_greenlet' = StopHeartbeat(_heartbeat_greenlet)
  /\ _connected' = FALSE
  /\ _client' = Some("client")
  /\ task' = [task EXCEPT ![t].pc = "relogin"]
  /\ reconnect_call' = IF MaxAttemptsOf(t) = 0 THEN reconnect_call
                        ELSE [reconnect_call EXCEPT !.logins = @ + 1]
  /\ UNCHANGED <<_auto_reconnect, _reconnecting>>
  /\ UNCHANGED <<persisterVars, monitorVars, extraction, app_record, paging, bulk, fetcher, last_event>>

\* disconnect() called by the caller (lines 118-125), up to the wait inside
\* SteamClient.disconnect()
Disconnect ==
  /\ task[Caller].pc = "ready"
  /\ _auto_reconnect' = FALSE
  /\ _heartbeat_greenlet' = StopHeartbeat(_heartbeat_greenlet)
  /\ task' = [task EXCEPT ![Caller].pc =
                IF _client # None THEN "closing" ELSE "closed"]
  /\ UNCHANGED <<_client, _connected, _reconnecting>>
  /\ UNCHANGED <<persisterVars, monitorVars, extraction, app_record, paging, bulk, reconnect_call, fetcher, last_event>>

\* disconnect() returns (lines 126-130)
DisconnectReturns ==
  /\ task[Caller].pc = "closing"
  /\ _connected' = FALSE
  /\ _client' = None
  /\ task' = [task EXCEPT ![Caller].pc = "closed"]
  /\ UNCHANGED <<_auto_reconnect, _reconnecting, _heartbeat_greenlet>>
  /\ UNCHANGED <<persisterVars, monitorVars, extraction, app_record, paging, bulk, reconnect_call, fetcher, last_event>>

\* a handler that spawns the task whether or not the session was connected
SpawnsHandlerAlways == _auto_reconnect /\ ~_reconnecting

\* _on_disconnected spawns _auto_reconnect_handler (line 192)
SpawnsHandler == _auto_reconnect /\ _connected /\ ~_reconnecting

\* the SteamClient emits "disconnected": _on_disconnected (lines 173-194)
OnDisconnected ==
  /\ _client # None
  /\ _connected' = FALSE
  /\ _heartbeat_greenlet' = StopHeartbeat(_heartbeat_greenlet)
  /\ IF SpawnsHandler
     THEN \E h \in Handlers :
            /\ task[h].pc = "unborn"
            /\ \A g \in Handlers : g < h => task[g].pc # "unborn"
            /\ task' = [task EXCEPT ![h].pc = "settling"]
     ELSE UNCHANGED task
  /\ last_event' = Some([auto_reconnect |-> _auto_reconnect,
                         was_connected |-> _connected,
                         reconnecting |-> _reconnecting,
                         spawned |-> task' # task])
  /\ UNCHANGED <<_client, _auto_reconnect, _reconnecting>>
  /\ UNCHANGED <<persisterVars, monitorVars, extraction, app_record, paging, bulk, reconnect_call, fetcher>>

\* a handler that ends after its delay without reconnecting
AutoReconnectHandlerIdle(h) ==
  /\ h \in Handlers
  /\ task[h].pc = "settling"
  /\ task' = [task EXCEPT ![h].pc = "done"]
  /\ UNCHANGED <<_client, _connected, _auto_reconnect, _reconnecting,
                 _heartbeat_greenlet>>
  /\ UNCHANGED <<persisterVars, monitorVars, extraction, app_record, paging, bulk, reconnect_call, fetcher, last_event>>

\* _auto_reconnect_handler after its delay (lines 199-202), up to the first
\* backoff delay of the reconnect it calls (lines 81-99)
AutoReconnectHandler(h) ==
  /\ h \in Handlers
  /\ task[h].pc = "settling"
  /\ IF ~_connected /\ ~_reconnecting
     THEN /\ _reconnecting' = TRUE
          /\ task' = [task EXCEPT ![h] = [pc |-> "backoff", attempt |-> 1]]
     ELSE /\ task' = [task EXCEPT ![h].pc = "done"]
          /\ UNCHANGED _reconnecting
  /\ UNCHANGED <<_client, _connected, _auto_reconnect, _heartbeat_greenlet>>
  /\ UNCHANGED <<persisterVars, monitorVars, extraction, app_record, paging, bulk, reconnect_call, fetcher, last_event>>

\* _heartbeat_loop after its sleep (lines 161-166): the request is sent if
\* the session is connected, else the loop test of line 160 follows
HeartbeatWakes ==
  /\ _heartbeat_greenlet \in {Some("sleeping"), Some("sleeping after failure")}
  /\ _heartbeat_greenlet' =
       IF IsConnected THEN Some("sending")
       ELSE IF _connected THEN Some("sleeping") ELSE Some("finished")
  /\ UNCHANGED <<_client, _connected, _auto_reconnect, _reconnecting, task>>
  /\ UNCHANGED <<persisterVars, monitorVars, extraction, app_record, paging, bulk, reconnect_call, fetcher, last_event>>

\* a heartbeat whose failed request takes the session for disconnected
HeartbeatSentDisconnecting ==
  /\ _heartbeat_greenlet = Some("sending")
  /\ \E ok \in BOOLEAN :
       /\ _connected' = (_connected /\ ok)
       /\ _heartbeat_greenlet' =
            IF _connected' THEN Some("sleeping") ELSE Some("finished")
  /\ UNCHANGED <<_client, _auto_reconnect, _reconnecting, task>>
  /\ UNCHANGED <<persisterVars, monitorVars, extraction, app_record, paging, bulk, reconnect_call, fetcher, last_event>>

\* the heartbeat request returns, or raises and the failure is logged
\* (lines 166-171), then the loop test of line 160 and the next sleep
HeartbeatSent ==
  /\ _heartbeat_greenlet = Some("sending")
  /\ \E ok \in BOOLEAN :
       _heartbeat_greenlet' =
         IF ~_connected THEN Some("finished")
         ELSE IF ok THEN Some("sleeping") ELSE Some("sleeping after failure")
  /\ UNCHANGED <<_client, _connected, _auto_reconnect, _reconnecting, task>>
  /\ UNCHANGED <<persisterVars, monitorVars, extraction, app_record, paging, bulk, reconnect_call, fetcher, last_event>>

(***************************************************************************)
(* PICSFetcher, called by the caller task. A step runs from one wait of    *)
(* the caller to its next: the response of a request, a time.sleep, the    *)
(* waits inside reconnect().                                               *)
(***************************************************************************)
\* a retry test that allows one more attempt
LastAttemptLate(attempt) == attempt >= max_retries

\* the test of line 70, negated: this was the last attempt
LastAttempt(attempt) == attempt >= max_retries - 1

\* a window that runs one appid into the next window
WindowAtOverlapping(appids, i) ==
  SubSeq(appids, i + 1, Min(i + batch_size + 1, Len(appids)))

\* appids[i : i + self.batch_size] (line 101), i counted from 0
WindowAt(appids, i) == SubSeq(appids, i + 1, Min(i + batch_size, Len(appids)))

\* the lists fetch_all_apps is called on
AppidLists == {[k \in 1 .. n |-> k] : n \in 0 .. MaxAppids}

\* fetch_apps_batch returns or raises. Inside fetch_all_apps the window is
\* yielded (lines 105-117) or recorded as failed (119-123), and the sleep
\* of line 117 or 123 follows
BatchEnds(f, res, val) ==
  IF f.op = "fetch_all_apps"
  THEN /\ fetcher' =
            [f EXCEPT !.pc = "between", !.result = res, !.value = val,
                      !.yielded = IF res = "returned" THEN Append(@, f.batch) ELSE @,
                      !.failed_batches =
                        IF res = "raised" THEN Append(@, f.batch) ELSE @]
       /\ task' = [task EXCEPT ![Caller].pc = "fetching"]
  ELSE /\ fetcher' = [f EXCEPT !.pc = "idle", !.result = res, !.value = val]
       /\ task' = [task EXCEPT ![Caller].pc = "ready"]

\* a pass that, with a reconnection in progress, waits for it to finish
\* and then tests the session again
StartAttemptWaiting(f) ==
  IF ~NotConnected
  THEN /\ fetcher' = Issued(f, IsConnected)
       /\ task' = [task EXCEPT ![Caller].pc = "fetching"]
       /\ UNCHANGED _reconnecting
  ELSE IF _reconnecting
  THEN /\ fetcher' = [f EXCEPT !.pc = "sleeping"]
       /\ task' = [task EXCEPT ![Caller].pc = "fetching"]
       /\ UNCHANGED _reconnecting
  ELSE /\ _reconnecting' = TRUE
       /\ task' = [task EXCEPT ![Caller] = [pc |-> "backoff", attempt |-> 1]]
       /\ fetcher' = [f EXCEPT !.pc = "reconnect"]

\* one pass of the loop of fetch_apps_batch up to its first wait (lines
\* 54-62): the request is sent, or reconnect() is called and refuses
\* (client.py 81-83) or starts its loop (client.py 85-99)
StartAttempt(f) ==
  IF ~NotConnected
  THEN /\ fetcher' = Issued(f, IsConnected)
       /\ task' = [task EXCEPT ![Caller].pc = "fetching"]
       /\ UNCHANGED _reconnecting
  ELSE IF _reconnecting
  THEN /\ BatchEnds([f EXCEPT !.refused = TRUE], "raised", "RuntimeError")
       /\ UNCHANGED _reconnecting
  ELSE /\ _reconnecting' = TRUE
       /\ task' = [task EXCEPT ![Caller] = [pc |-> "backoff", attempt |-> 1]]
       /\ fetcher' = [f EXCEPT !.pc = "reconnect"]

\* fetch_apps_batch(appids) called by the caller
FetchAppsBatch ==
  /\ task[Caller].pc = "ready"
  /\ _client # None
  /\ StartAttempt([FetcherIdle EXCEPT !.op = "fetch_apps_batch", !.batch = <<1, 2>>])
  /\ UNCHANGED <<_client, _connected, _auto_reconnect, _heartbeat_greenlet, last_event>>
  /\ UNCHANGED <<persisterVars, monitorVars, extraction, app_record, paging, bulk, reconnect_call>>

\* get_product_info returns the apps, returns None, or raises (lines 62-76)
ProductInfoReturns ==
  /\ fetcher.op \in {"fetch_apps_batch", "fetch_all_apps"}
  /\ fetcher.pc = "waiting"
  /\ \E outcome \in {"apps", "none", "raises"} :
       CASE outcome = "apps" -> BatchEnds(fetcher, "returned", "apps")
         [] outcome = "none" -> BatchEnds(fetcher, "returned", "empty")
         [] OTHER ->
              LET f == [fetcher EXCEPT !.failures = @ + 1]
              IN IF LastAttempt(f.attempt)
                 THEN BatchEnds(f, "raised", "error")
                 ELSE /\ fetcher' = [f EXCEPT !.pc = "sleeping"]
                      /\ UNCHANGED task
  /\ UNCHANGED <<_client, _connected, _auto_reconnect, _reconnecting,
                 _heartbeat_greenlet, last_event>>
  /\ UNCHANGED <<persisterVars, monitorVars, extraction, app_record, paging, bulk, reconnect_call>>

\* the delay before the retry is over (line 73): the next pass of the loop
RetryDelayOver ==
  /\ fetcher.pc = "sleeping"
  /\ StartAttempt([fetcher EXCEPT !.attempt = @ + 1])
  /\ UNCHANGED <<_client, _connected, _auto_reconnect, _heartbeat_greenlet, last_event>>
  /\ UNCHANGED <<persisterVars, monitorVars, extraction, app_record, paging, bulk, reconnect_call>>

\* the head of the loop of fetch_all_apps at offset i (lines 100-104): the
\* window is fetched, or the generator is exhausted
WindowFrom(f, i) ==
  IF i < Len(f.appids)
  THEN StartAttempt([f EXCEPT !.i = i, !.batch = WindowAt(f.appids, i),
                              !.attempted = Append(@, WindowAt(f.appids, i)),
                              !.attempt = 0, !.issued = 0, !.failures = 0,
                              !.refused = FALSE, !.result = "pending",
                              !.value = "none"])
  ELSE /\ fetcher' = [f EXCEPT !.pc = "idle", !.finished = TRUE]
       /\ task' = [task EXCEPT ![Caller].pc = "ready"]
       /\ UNCHANGED _reconnecting

\* fetch_all_apps(appids) called by the caller and iterated (lines 96-104)
FetchAllApps ==
  /\ task[Caller].pc = "ready"
  /\ _client # None
  /\ \E appids \in AppidLists :
       WindowFrom([FetcherIdle EXCEPT !.op = "fetch_all_apps", !.appids = appids], 0)
  /\ UNCHANGED <<_client, _connected, _auto_reconnect, _heartbeat_greenlet, last_event>>
  /\ UNCHANGED <<persisterVars, monitorVars, extraction, app_record, paging, bulk, reconnect_call>>

\* the sleep after a window is over (line 117 or 123): the next window
NextWindow ==
  /\ fetcher.pc = "between"
  /\ WindowFrom(fetcher, fetcher.i + batch_size)
  /\ UNCHANGED <<_client, _connected, _auto_reconnect, _heartbeat_greenlet, last_event>>
  /\ UNCHANGED <<persisterVars, monitorVars, extraction, app_record, paging, bulk, reconnect_call>>

\* get_changes_since(n) called by the caller (lines 144-152): it raises
\* when the session is not connected, else the request is sent
GetChangesSince ==
  /\ task[Caller].pc = "ready"
  /\ _client # None
  /\ IF ~IsConnected
     THEN /\ fetcher' = [FetcherIdle EXCEPT !.op = "get_changes_since",
                                            !.result = "raised",
                                            !.value = "RuntimeError"]
          /\ UNCHANGED task
     ELSE /\ fetcher' = [FetcherIdle EXCEPT !.op = "get_changes_since",
                                            !.pc = "waiting", !.issued = 1]
          /\ task' = [task EXCEPT ![Caller].pc = "fetching"]
  /\ UNCHANGED <<_client, _connected, _auto_reconnect, _reconnecting,
                 _heartbeat_greenlet, last_event>>
  /\ UNCHANGED <<persisterVars, monitorVars, extraction, app_record, paging, bulk, reconnect_call>>

\* the request of get_changes_since returns a response, returns None, or
\* raises (lines 147-164)
ChangesReturn ==
  /\ fetcher.op = "get_changes_since"
  /\ fetcher.pc = "waiting"
  /\ \E outcome \in {"response", "none", "raises"} :
       fetcher' = [fetcher EXCEPT !.pc = "idle", !.result = "returned",
                                  !.value = IF outcome = "response"
                                            THEN "PICSChange" ELSE "None"]
  /\ task' = [task EXCEPT ![Caller].pc = "ready"]
  /\ UNCHANGED <<_client, _connected, _auto_reconnect, _reconnecting,
                 _heartbeat_greenlet, last_event>>
  /\ UNCHANGED <<persisterVars, monitorVars, extraction, app_record, paging, bulk, reconnect_call>>

SessionInit ==
  /\ store = MonitorStore
  /\ clock = 1
  /\ call = NoCall
  /\ MonitorIdle
  /\ SessionIdle
  /\ pics_sync_state = None
  /\ upstream = 0

SessionNext ==
  \/ Connect
  \/ \E t \in TaskIds : LoginResult(t)
  \/ Reconnect
  \/ ReconnectRefused
  \/ \E t \in TaskIds : BackoffOver(t)
  \/ Disconnect
  \/ DisconnectReturns
  \/ OnDisconnected
  \/ \E h \in Handlers : AutoReconnectHandler(h)
  \/ HeartbeatWakes
  \/ HeartbeatSent

SessionSpec == SessionInit /\ [][SessionNext]_vars

\* the session with the caller calling reconnect(max_attempts) with a limit
\* as well
(***************************************************************************)
(* The bulk backfill, BulkSyncWorker.run, on the session.                  *)
(***************************************************************************)

\* the fields of Settings (settings.py lines 10-33)
SettingsFields ==
  {"supabase_url", "supabase_service_key", "steam_username", "steam_password",
   "mode", "port", "bulk_batch_size", "bulk_request_delay", "poll_interval",
   "process_batch_size", "max_queue_size", "log_level", "log_json"}

\* the settings that run() reads to construct its PICSFetcher (lines 49-55)
FetcherSettings ==
  {"bulk_batch_size", "bulk_request_delay", "bulk_timeout", "bulk_max_retries"}

\* run() is called (lines 32-44)
BulkRun ==
  /\ bulk.pc = "idle"
  /\ bulk' = [bulk EXCEPT !.pc = "connect"]
  /\ UNCHANGED <<_client, _connected, _auto_reconnect, _reconnecting,
                 _heartbeat_greenlet, task, fetcher, last_event, reconnect_call>>
  /\ UNCHANGED <<persisterVars, monitorVars, extraction, app_record, paging>>

\* connect() has returned (lines 46-47): False, and run() raises; True, and
\* run() goes on
BulkConnectReturns ==
  /\ bulk.pc = "connect"
  /\ \/ /\ task[Caller].pc = "exited"
        /\ bulk' = [bulk EXCEPT !.pc = "raised"]
     \/ /\ task[Caller].pc = "ready"
        /\ _client # None
        /\ bulk' = [pc |-> "construct", connected |-> TRUE]
  /\ UNCHANGED <<_client, _connected, _auto_reconnect, _reconnecting,
                 _heartbeat_greenlet, task, fetcher, last_event, reconnect_call>>
  /\ UNCHANGED <<persisterVars, monitorVars, extraction, app_record, paging>>

\* the PICSFetcher is constructed (lines 49-55): the arguments are read from
\* settings, and reading a field that Settings does not have raises
\* AttributeError. Nothing of run() before its `try` (line 73) catches it,
\* and the disconnect() of run() is in the `finally` of that `try` (116-118)
BulkConstruct ==
  /\ bulk.pc = "construct"
  /\ bulk' = [bulk EXCEPT !.pc = IF FetcherSettings \subseteq SettingsFields
                                 THEN "app_ids" ELSE "raised"]
  /\ UNCHANGED <<_client, _connected, _auto_reconnect, _reconnecting,
                 _heartbeat_greenlet, task, fetcher, last_event, reconnect_call>>
  /\ UNCHANGED <<persisterVars, monitorVars, extraction, app_record, paging>>

\* run() and the session's own tasks. Settings has no bulk_timeout and no
\* bulk_max_retries, so no run() gets past the construction of its fetcher:
\* the steps of run() after line 55 are unreachable and have no action
BulkNext ==
  \/ BulkRun
  \/ (bulk.pc = "connect" /\ Connect)
  \/ \E t \in TaskIds : LoginResult(t)
  \/ BulkConnectReturns
  \/ BulkConstruct
  \/ \E t \in TaskIds : BackoffOver(t)
  \/ OnDisconnected
  \/ \E h \in Handlers : AutoReconnectHandler(h)
  \/ HeartbeatWakes
  \/ HeartbeatSent

BulkSpec == SessionInit /\ [][BulkNext]_vars

(***************************************************************************)
(* The extractor, PICSExtractor.extract, on the shapes of a raw record.    *)
(***************************************************************************)

\* The shapes of a raw record. Each field tells what the record holds under
\* that key: nothing ("missing"), a sub-record ("dict"), a text or a number.
\* appinfo is the envelope; without it the record itself is the app info.
RawShapes ==
  [appinfo  : {"missing", "dict", "text"},
   common   : {"missing", "dict", "text"},
   extended : {"missing", "dict", "text"},
   config   : {"missing", "dict", "number"},
   oslist   : {"missing", "text", "dict"}]

\* extract (lines 91-155) with _parse_platforms (195-199): "extracted" when
\* it returns an ExtractedPICSData, "raised" when a step of it raises. Only
\* `common` is read under an isinstance test (line 99); the other
\* sub-records are read by .get on whatever the record holds
Extract(raw) ==
  LET appinfo == IF raw.appinfo = "missing" THEN "dict" ELSE raw.appinfo
      \* what appinfo holds under a key, {} when it holds nothing
      Sub(key) == IF raw[key] = "missing" THEN "dict" ELSE raw[key]
      common == IF appinfo = "dict" THEN Sub("common") ELSE "dict"
  IN  IF appinfo # "dict" THEN "raised"             \* line 108: appinfo.get
      ELSE IF common # "dict" THEN "raised"         \* line 114: common.get
      ELSE IF Sub("extended") # "dict" THEN "raised" \* line 121: extended.get
      ELSE IF raw.oslist = "dict" THEN "raised"     \* line 199: oslist.split
      ELSE IF raw.config = "number" THEN "raised"   \* line 144: "workshop" in config
      ELSE "extracted"

\* one call of extract on a raw record
extract ==
  /\ extraction = NoExtraction
  /\ \E raw \in RawShapes :
       extraction' = [raw |-> raw, result |-> Extract(raw)]
  /\ UNCHANGED <<_client, _connected, _auto_reconnect, _reconnecting,
                 _heartbeat_greenlet, task, fetcher, last_event, reconnect_call,
                 bulk, app_record, paging>>
  /\ UNCHANGED <<persisterVars, monitorVars>>

ExtractSpec == SessionInit /\ [][extract]_vars

(***************************************************************************)
(* The type column of a row of apps: _build_app_record with _infer_type    *)
(* and _map_app_type. A text is the sequence of its characters.            *)
(***************************************************************************)

\* str.lower() on the letters that occur
LowerChar(c) ==
  CASE c = "B" -> "b"
    [] c = "C" -> "c"
    [] c = "D" -> "d"
    [] c = "G" -> "g"
    [] c = "H" -> "h"
    [] c = "K" -> "k"
    [] c = "L" -> "l"
    [] c = "M" -> "m"
    [] c = "O" -> "o"
    [] c = "P" -> "p"
    [] c = "S" -> "s"
    [] c = "T" -> "t"
    [] c = "V" -> "v"
    [] OTHER -> c

Lower(text) == [i \in DOMAIN text |-> LowerChar(text[i])]

\* sub in text
Contains(sub, text) ==
  \E i \in 0 .. Len(text) - Len(sub) : SubSeq(text, i + 1, i + Len(sub)) = sub

\* text.endswith(sub)
EndsWith(text, sub) ==
  /\ Len(sub) <= Len(text)
  /\ SubSeq(text, Len(text) - Len(sub) + 1, Len(text)) = sub

\* the types of the catalog, the values of the type column of apps
CatalogTypes ==
  {<<"g", "a", "m", "e">>,
   <<"d", "l", "c">>,
   <<"d", "e", "m", "o">>,
   <<"m", "o", "d">>,
   <<"v", "i", "d", "e", "o">>,
   <<"t", "o", "o", "l">>,
   <<"a", "p", "p", "l", "i", "c", "a", "t", "i", "o", "n">>,
   <<"h", "a", "r", "d", "w", "a", "r", "e">>,
   <<"m", "u", "s", "i", "c">>,
   <<"e", "p", "i", "s", "o", "d", "e">>,
   <<"s", "e", "r", "i", "e", "s">>,
   <<"a", "d", "v", "e", "r", "t", "i", "s", "i", "n", "g">>}

\* the type table of _map_app_type (lines 643-656)
type_map ==
  [t \in {<<"g", "a", "m", "e">>,
          <<"d", "l", "c">>,
          <<"d", "e", "m", "o">>,
          <<"m", "o", "d">>,
          <<"v", "i", "d", "e", "o">>,
          <<"t", "o", "o", "l">>,
          <<"a", "p", "p", "l", "i", "c", "a", "t", "i", "o", "n">>,
          <<"h", "a", "r", "d", "w", "a", "r", "e">>,
          <<"m", "u", "s", "i", "c">>,
          <<"e", "p", "i", "s", "o", "d", "e">>,
          <<"s", "e", "r", "i", "e", "s">>,
          <<"a", "d", "v", "e", "r", "t", "i", "s", "i", "n", "g">>} |-> t]

\* a value of an extracted record: a text, or a nested section that holds
\* something
Text(t) == [kind |-> "text", text |-> t]
NestedSection == [kind |-> "section", text |-> <<>>]

\* _map_app_type as a table that lets every type through
MapAppTypeAsIs(pics_type) ==
  IF pics_type = None \/ pics_type = Some(Text(<<>>)) THEN <<"g", "a", "m", "e">>
  ELSE pics_type[1].text

\* _map_app_type (lines 639-657); a missing or empty type is falsy
MapAppType(pics_type) ==
  IF pics_type = None \/ pics_type = Some(Text(<<>>)) THEN <<"g", "a", "m", "e">>
  ELSE IF Lower(pics_type[1].text) \in DOMAIN type_map
       THEN type_map[Lower(pics_type[1].text)]
       ELSE <<"g", "a", "m", "e">>

\* _infer_type (lines 600-637): the rules on the lowercased name, in the
\* order of the code; a missing or empty name goes to the default
InferType(name) ==
  IF name = None \/ name = Some(Text(<<>>)) THEN <<"g", "a", "m", "e">>
  ELSE
    LET name_lower == Lower(name[1].text)
    IN  IF /\ \/ Contains(<<" ", "d", "e", "m", "o">>, name_lower)
              \/ EndsWith(name_lower, <<" ", "d", "e", "m", "o">>)
              \/ Contains(<<"(", "d", "e", "m", "o", ")">>, name_lower)
              \/ Contains(<<"[", "d", "e", "m", "o", "]">>, name_lower)
           /\ ~(\/ Contains(<<"d", "e", "m", "o", "n">>, name_lower)
                \/ Contains(<<"d", "e", "m", "o", "c", "r", "a", "c", "y">>, name_lower)
                \/ Contains(<<"d", "e", "m", "o", "l", "i", "t", "i", "o", "n">>, name_lower))
        THEN <<"d", "e", "m", "o">>
        ELSE IF \/ Contains(<<"s", "o", "u", "n", "d", "t", "r", "a", "c", "k">>, name_lower)
                \/ Contains(<<" ", "o", "s", "t">>, name_lower)
                \/ Contains(<<"o", "r", "i", "g", "i", "n", "a", "l", " ", "s", "c", "o", "r", "e">>, name_lower)
                \/ Contains(<<"m", "u", "s", "i", "c", " ", "p", "a", "c", "k">>, name_lower)
        THEN <<"m", "u", "s", "i", "c">>
        ELSE IF \/ Contains(<<" ", "s", "d", "k">>, name_lower)
                \/ Contains(<<"d", "e", "d", "i", "c", "a", "t", "e", "d", " ", "s", "e", "r", "v", "e", "r">>, name_lower)
                \/ Contains(<<"l", "e", "v", "e", "l", " ", "e", "d", "i", "t", "o", "r">>, name_lower)
                \/ Contains(<<"m", "o", "d", "d", "i", "n", "g", " ", "t", "o", "o", "l">>, name_lower)
        THEN <<"t", "o", "o", "l">>
        ELSE IF \/ Contains(<<"t", "r", "a", "i", "l", "e", "r">>, name_lower)
                \/ Contains(<<"-", " ", "v", "i", "d", "e", "o">>, name_lower)
                \/ Contains(<<"m", "a", "k", "i", "n", "g", " ", "o", "f">>, name_lower)
                \/ Contains(<<"b", "e", "h", "i", "n", "d", " ", "t", "h", "e", " ", "s", "c", "e", "n", "e", "s">>, name_lower)
        THEN <<"v", "i", "d", "e", "o">>
        ELSE <<"g", "a", "m", "e">>

\* the names an extracted record may carry: a text, nothing, or a nested
\* section
ExtractedNames ==
  {None, Some(Text(<<>>)), Some(NestedSection),
   Some(Text(<<"P", "o", "r", "t", "a", "l", " ", "D", "e", "m", "o">>)),
   Some(Text(<<"D", "e", "m", "o", "n", " ", "H", "u", "n", "t", " ", "D", "e", "m", "o">>)),
   Some(Text(<<"D", "e", "m", "o", "c", "r", "a", "c", "y", " ", "3">>)),
   Some(Text(<<"P", "o", "r", "t", "a", "l", " ", "(", "D", "e", "m", "o", ")">>)),
   Some(Text(<<"P", "o", "r", "t", "a", "l", " ", "[", "D", "e", "m", "o", "]">>)),
   Some(Text(<<"P", "o", "r", "t", "a", "l", " ", "S", "o", "u", "n", "d", "t", "r", "a", "c", "k">>)),
   Some(Text(<<"P", "o", "r", "t", "a", "l", " ", "D", "e", "m", "o", " ", "S", "o", "u", "n", "d", "t", "r", "a", "c", "k">>)),
   Some(Text(<<"D", "e", "m", "o", " ", "S", "o", "u", "n", "d", "t", "r", "a", "c", "k", " ", "S", "D", "K">>)),
   Some(Text(<<"S", "o", "u", "r", "c", "e", " ", "S", "D", "K">>)),
   Some(Text(<<"S", "o", "u", "r", "c", "e", " ", "S", "D", "K", " ", "T", "r", "a", "i", "l", "e", "r">>)),
   Some(Text(<<"B", "i", "g", " ", "O", "S", "T", " ", "S", "D", "K", " ", "T", "r", "a", "i", "l", "e", "r">>)),
   Some(Text(<<"L", "a", "u", "n", "c", "h", " ", "T", "r", "a", "i", "l", "e", "r">>)),
   Some(Text(<<"M", "a", "k", "i", "n", "g", " ", "O", "f", " ", "-", " ", "V", "i", "d", "e", "o">>)),
   Some(Text(<<"H", "a", "l", "f", "-", "L", "i", "f", "e">>)),
   Some(Text(<<"D", "L", "C", " ", "P", "a", "c", "k">>))}

\* the types an extracted record may carry
ExtractedTypes ==
  {None, Some(NestedSection),
   Some(Text(<<"g", "a", "m", "e">>)),
   Some(Text(<<"d", "l", "c">>)),
   Some(Text(<<"d", "e", "m", "o">>)),
   Some(Text(<<"m", "o", "d">>)),
   Some(Text(<<"v", "i", "d", "e", "o">>)),
   Some(Text(<<"t", "o", "o", "l">>)),
   Some(Text(<<"a", "p", "p", "l", "i", "c", "a", "t", "i", "o", "n">>)),
   Some(Text(<<"h", "a", "r", "d", "w", "a", "r", "e">>)),
   Some(Text(<<"m", "u", "s", "i", "c">>)),
   Some(Text(<<"e", "p", "i", "s", "o", "d", "e">>)),
   Some(Text(<<"s", "e", "r", "i", "e", "s">>)),
   Some(Text(<<"a", "d", "v", "e", "r", "t", "i", "s", "i", "n", "g">>)),
   Some(Text(<<"D", "L", "C">>)),
   Some(Text(<<"G", "a", "m", "e">>)),
   Some(Text(<<"C", "o", "n", "f", "i", "g">>)),
   Some(Text(<<"b", "e", "t", "a">>)),
   Some(Text(<<>>))}

\* the "type" column of the row _build_app_record returns (lines 327-336),
\* None when the method returns None: lower() of a value that is not text
\* raises inside the try block
RowType(name, type) ==
  IF type # None /\ type # Some(Text(<<>>))
  THEN IF type = Some(NestedSection) THEN None ELSE Some(MapAppType(type))
  ELSE IF name = Some(NestedSection) THEN None
       ELSE Some(MapAppType(Some(Text(InferType(name)))))

\* one call of _build_app_record on an extracted record
_build_app_record ==
  /\ ~app_record.done
  /\ \E name \in ExtractedNames, type \in ExtractedTypes :
       app_record' = [name |-> name, type |-> type, done |-> TRUE,
                      row_type |-> RowType(name, type)]
  /\ UNCHANGED <<_client, _connected, _auto_reconnect, _reconnecting,
                 _heartbeat_greenlet, task, fetcher, last_event, reconnect_call,
                 bulk, extraction, paging>>
  /\ UNCHANGED <<persisterVars, monitorVars>>

BuildSpec == SessionInit /\ [][_build_app_record]_vars

(***************************************************************************)
(* The paginated reads of PICSDatabase: get_all_app_ids.                   *)
(***************************************************************************)

\* the rows of one page
page_size == 2

\* the highest appid of a row of apps or sync_status
MaxPageAppid == 4
PageAppIds == 1 .. MaxPageAppid

\* the stores the reads run on: apps holds the rows of S, sync_status a row
\* for each of them, never synced from PICS for those of U
PageStores ==
  {[MonitorStore EXCEPT
      !.apps = [a \in S |-> InitialRow(FALSE)],
      !.sync_status = [a \in S |->
                         InitialStatus(IF a \in U THEN "unsynced" ELSE "pics")]] :
     S \in SUBSET PageAppIds, U \in SUBSET PageAppIds}

\* the appids the filters of the query select, the cursor apart: the rows
\* of sync_status with a null last_pics_sync (lines 682-685), or the rows
\* of apps (lines 712-713)
Matching(db, unsynced_only) ==
  IF unsynced_only
  THEN {a \in DOMAIN db.sync_status : db.sync_status[a].last_pics_sync = None}
  ELSE DOMAIN db.apps

\* a page that starts at the cursor, the cursor's row included
PageFromCursor(matching, last_appid) ==
  LET rows == Ascending({a \in matching : a >= last_appid})
  IN SubSeq(rows, 1, Min(page_size, Len(rows)))

\* .gt("appid", last_appid).order("appid").limit(page_size) (lines 686-688,
\* 714-716): the lowest page_size appids above the cursor, ascending
PageAfter(matching, last_appid) ==
  LET rows == Ascending({a \in matching : a > last_appid})
  IN SubSeq(rows, 1, Min(page_size, Len(rows)))

\* get_all_app_ids(unsynced_only) up to the first query (lines 659-676,
\* 705-709); expected: the matching appids as the call found them
get_all_app_ids ==
  /\ paging.pc = "idle"
  /\ \E unsynced_only \in BOOLEAN :
       paging' = [NoPaging EXCEPT
                    !.pc = "paging",
                    !.unsynced_only = unsynced_only,
                    !.expected = Ascending(Matching(store, unsynced_only))]
  /\ UNCHANGED <<_client, _connected, _auto_reconnect, _reconnecting,
                 _heartbeat_greenlet, task, fetcher, last_event, reconnect_call,
                 bulk, extraction, app_record>>
  /\ UNCHANGED <<persisterVars, monitorVars>>

\* one turn of the loop (lines 678-702, 710-730): the query raises and the
\* loop is left, or it returns a page; an empty page ends the loop, any
\* other is appended and moves the cursor to its last appid, and a page
\* shorter than page_size ends the loop
ReadPage ==
  /\ paging.pc = "paging"
  /\ \E ok \in BOOLEAN :
       IF ~ok
       THEN paging' = [paging EXCEPT !.pc = "returned", !.failed = TRUE]
       ELSE \E appids \in {PageAfter(Matching(store, paging.unsynced_only),
                                     paging.last_appid)} :
              IF appids = <<>>
              THEN paging' = [paging EXCEPT !.pc = "returned"]
              ELSE paging' = [paging EXCEPT
                                !.all_appids = @ \o appids,
                                !.last_appid = appids[Len(appids)],
                                !.pc = IF Len(appids) < page_size
                                       THEN "returned" ELSE "paging"]
  /\ UNCHANGED <<_client, _connected, _auto_reconnect, _reconnecting,
                 _heartbeat_greenlet, task, fetcher, last_event, reconnect_call,
                 bulk, extraction, app_record>>
  /\ UNCHANGED <<persisterVars, monitorVars>>

\* another writer of the store between two pages: a row of apps with its
\* sync_status row is inserted or deleted, or an app is synced from PICS
StoreChanges ==
  /\ paging.pc = "paging"
  /\ \E a \in PageAppIds :
       \/ /\ a \notin DOMAIN store.apps
          /\ store' = [store EXCEPT
                         !.apps = (a :> InitialRow(FALSE)) @@ @,
                         !.sync_status = (a :> InitialStatus("unsynced")) @@ @]
       \/ /\ a \in DOMAIN store.apps
          /\ store' = [store EXCEPT
                         !.apps = [x \in DOMAIN @ \ {a} |-> @[x]],
                         !.sync_status = [x \in DOMAIN @ \ {a} |-> @[x]]]
       \/ /\ a \in DOMAIN store.sync_status
          /\ store.sync_status[a].last_pics_sync = None
          /\ store' = [store EXCEPT !.sync_status[a].last_pics_sync = Some(clock)]
  /\ paging' = [paging EXCEPT !.modified = TRUE]
  /\ UNCHANGED <<_client, _connected, _auto_reconnect, _reconnecting,
                 _heartbeat_greenlet, task, fetcher, last_event, reconnect_call,
                 bulk, extraction, app_record>>
  /\ UNCHANGED <<clock, call, monitorVars>>

PageInit ==
  /\ store \in PageStores
  /\ clock = 1
  /\ call = NoCall
  /\ MonitorIdle
  /\ SessionIdle
  /\ pics_sync_state = None
  /\ upstream = 0

PageNext ==
  \/ get_all_app_ids
  \/ ReadPage
  \/ StoreChanges

\* a query of the store returns or raises: the loop takes its next turn
PageSpec == PageInit /\ [][PageNext]_vars /\ WF_vars(ReadPage)

ReconnectSpec == SessionInit /\ [][SessionNext \/ ReconnectLimited]_vars

\* the session with the caller making PICSFetcher calls as well
FetcherNext ==
  \/ SessionNext
  \/ GetChangesSince
  \/ ChangesReturn
  \/ FetchAppsBatch
  \/ ProductInfoReturns
  \/ RetryDelayOver
  \/ FetchAllApps
  \/ NextWindow

FetcherSpec == SessionInit /\ [][FetcherNext]_vars

\* the reconnect loops in progress: the tasks inside reconnect()
ReconnectLoops == {t \in TaskIds : task[t].pc \in {"backoff", "relogin"}}

(***************************************************************************)
(* C15: get_changes_since(n) never raises: in every session state and for  *)
(* every upstream error it returns a delta or None.                        *)
(***************************************************************************)
C15_ChangesNeverRaises ==
  fetcher.op = "get_changes_since" => fetcher.result # "raised"

(***************************************************************************)
(* C3: Disconnect() is terminal: once Disconnect() has returned, the       *)
(* session is never connected again and it has no heartbeat task again,    *)
(* whatever handler task or reconnect loop was pending when it was called. *)
(***************************************************************************)
C3_DisconnectTerminal ==
  task[Caller].pc = "closed" => ~_connected /\ _heartbeat_greenlet = None

(***************************************************************************)
(* C2: an appid that was enqueued and has a row in apps is not taken out   *)
(* of the queue without a successful persist: while the loop runs, every   *)
(* enqueued appid of apps whose last_pics_sync has not advanced since is   *)
(* still in the queue.                                                     *)
(***************************************************************************)
C2_QueuedUntilPersisted ==
  MonitorActive =>
    (pending \cap DOMAIN store.apps) \subseteq (Range(change_queue) \cup Range(queue_batch))

(***************************************************************************)
(* C4: in every reachable state the change queue holds at most             *)
(* max_queue_size appids.                                                  *)
(***************************************************************************)
C4_QueueBounded == Len(change_queue) <= max_queue_size

\* the queue is full after a delta that did not fit was handled
C4_Witness ==
  /\ pc = "write"
  /\ Len(change_queue) = max_queue_size
  /\ Len(queue_before) + Len(changes[1].app_changes) > max_queue_size

(***************************************************************************)
(* C5: in no reachable state does the same appid occur more than once in   *)
(* the change queue.                                                       *)
(***************************************************************************)
C5_QueueDeduplicated ==
  \A i, j \in DOMAIN change_queue :
    i # j => change_queue[i] # change_queue[j]

(***************************************************************************)
(* C6: when a delta has been handled, the queue is the queue as it was     *)
(* followed by the leading appids of the delta in delta order; appids of   *)
(* the delta are left out only when the queue is full; no appid that was   *)
(* in the queue is evicted or reordered.                                   *)
(***************************************************************************)
C6_OverflowDropsNewest ==
  pc = "write" =>
    \E k \in 0 .. Len(changes[1].app_changes) :
      /\ change_queue = queue_before \o SubSeq(changes[1].app_changes, 1, k)
      /\ k < Len(changes[1].app_changes) => Len(change_queue) = max_queue_size

\* a delta with more appids than the free capacity of a non-empty queue
C6_Witness ==
  /\ pc = "write"
  /\ queue_before # <<>>
  /\ Len(queue_before) < max_queue_size
  /\ Len(changes[1].app_changes) > max_queue_size - Len(queue_before)

(***************************************************************************)
(* C7: when GetChangesSince returned nothing, or a delta whose             *)
(* change_number is at most the in-memory cursor, the iteration goes on to *)
(* processQueue with the queue and the in-memory cursor as they were and   *)
(* without a write of pics_sync_state; pics_sync_state is written by the   *)
(* cursor write of an advancing delta only.                                *)
(***************************************************************************)
C7_StaleDeltaIgnored ==
  [][/\ (/\ pc = "handle"
         /\ pc' \notin {"handle", "idle", "exited"}
         /\ (changes = None \/ changes[1].change_number <= last_change))
        => /\ pc' = "process"
           /\ UNCHANGED <<change_queue, last_change, pics_sync_state>>
     /\ pics_sync_state' # pics_sync_state => pc = "write"]_vars

\* a delta at or below a non-zero cursor has been skipped
C7_Witness ==
  /\ pc = "process"
  /\ changes # None
  /\ changes[1].app_changes # <<>>
  /\ changes[1].change_number <= last_change
  /\ last_change > 0
  /\ ~boot.wrote
  /\ queue_before = <<>>
  /\ change_queue = <<>>

(***************************************************************************)
(* C8: the last_change_number stored in pics_sync_state never decreases:   *)
(* every value written is at least the value stored before, over polls,    *)
(* failed reads and writes of the cursor, crashes and restarts.            *)
(***************************************************************************)
C8_PersistedCursorMonotone ==
  [][/\ pics_sync_state # None => pics_sync_state' # None
     /\ (pics_sync_state # None /\ pics_sync_state' # None)
          => pics_sync_state'[1] >= pics_sync_state[1]]_vars

\* the cursor was written by a process whose read of a stored cursor failed
C8_Witness ==
  /\ boot.read_failed
  /\ boot.wrote
  /\ pics_sync_state # None
  /\ pics_sync_state[1] > 0
  /\ pics_sync_state[1] = last_change

\* fetch_apps_batch is in progress or was the last call to end, on its own
\* or for a window of fetch_all_apps
InFetchAppsBatch == fetcher.op \in {"fetch_apps_batch", "fetch_all_apps"}

(***************************************************************************)
(* C16: fetch_apps_batch retries a failing get_product_info and raises     *)
(* exactly after max_retries failures in a row: it sends at most           *)
(* max_retries requests per call, returns the result of the first request  *)
(* that succeeds, and never returns normally after max_retries failures.   *)
(***************************************************************************)
C16_RetryBound ==
  InFetchAppsBatch =>
    /\ fetcher.issued <= max_retries
    /\ fetcher.failures <= fetcher.issued
    /\ fetcher.result = "returned" => fetcher.issued = fetcher.failures + 1
    /\ fetcher.failures = max_retries => fetcher.result = "raised"
    /\ (fetcher.result = "raised" /\ ~fetcher.refused) =>
          fetcher.failures = max_retries

\* a call whose every request raised, ended by raising
C16_Witness ==
  /\ fetcher.op = "fetch_apps_batch"
  /\ fetcher.result = "raised"
  /\ fetcher.issued = max_retries
  /\ fetcher.failures = max_retries

(***************************************************************************)
(* C17: fetch_apps_batch never sends get_product_info while the session is *)
(* not connected: before each attempt it tests is_connected and calls      *)
(* reconnect() when false, and when that reconnect() returns False the     *)
(* call raises at once, sending no request and leaving its remaining       *)
(* attempts unused.                                                        *)
(***************************************************************************)
C17_NoRequestWhileDisconnected ==
  InFetchAppsBatch =>
    /\ ~fetcher.blind
    /\ fetcher.refused =>
          /\ fetcher.result = "raised"
          /\ fetcher.pc \in {"idle", "between"}
          /\ fetcher.issued = fetcher.failures

\* a call that found the session not connected before its first attempt,
\* was refused by reconnect() and raised with every attempt unused
C17_Witness ==
  /\ fetcher.op = "fetch_apps_batch"
  /\ fetcher.refused
  /\ fetcher.result = "raised"
  /\ fetcher.attempt = 0
  /\ fetcher.issued = 0

\* the concatenation of a sequence of windows
RECURSIVE Flatten(_)
Flatten(ws) == IF ws = <<>> THEN <<>> ELSE Head(ws) \o Flatten(Tail(ws))

(***************************************************************************)
(* C18: fetch_all_apps attempts every window of batch_size consecutive     *)
(* appids exactly once and in input order: each input appid is in exactly  *)
(* one window, a window whose fetch fails is recorded and not retried, a   *)
(* failed window does not keep the later windows from being attempted,     *)
(* and the batches yielded are exactly the successful windows in order.    *)
(***************************************************************************)
C18_WindowsOnceInOrder ==
  fetcher.op = "fetch_all_apps" =>
    LET done == Flatten(fetcher.attempted)
        failed == Range(fetcher.failed_batches)
        settled == IF fetcher.pc \in {"idle", "between"} THEN fetcher.attempted
                   ELSE SubSeq(fetcher.attempted, 1, Len(fetcher.attempted) - 1)
    IN /\ Len(done) <= Len(fetcher.appids)
       /\ done = SubSeq(fetcher.appids, 1, Len(done))
       /\ \A k \in DOMAIN fetcher.attempted :
            /\ Len(fetcher.attempted[k]) \in 1 .. batch_size
            /\ k < Len(fetcher.attempted) => Len(fetcher.attempted[k]) = batch_size
       /\ fetcher.finished => done = fetcher.appids
       /\ fetcher.failed_batches = SelectSeq(settled, LAMBDA w : w \in failed)
       /\ fetcher.yielded = SelectSeq(settled, LAMBDA w : w \notin failed)

\* a finished call of two windows whose first window failed and whose second
\* was yielded
C18_Witness ==
  /\ fetcher.op = "fetch_all_apps"
  /\ fetcher.finished
  /\ Len(fetcher.attempted) = 2
  /\ fetcher.failed_batches = <<fetcher.attempted[1]>>
  /\ fetcher.yielded = <<fetcher.attempted[2]>>

(***************************************************************************)
(* C19: reconnection is mutually exclusive: whatever the interleaving of   *)
(* disconnect events, auto-reconnect handlers and reconnect() calls of the *)
(* fetcher and of the caller, at most one reconnect loop is in progress on *)
(* the session, _reconnecting is set while it is, and a reconnect() made   *)
(* meanwhile has returned False without a login attempt of its own.        *)
(***************************************************************************)
C19_ReconnectExclusive ==
  /\ Cardinality(ReconnectLoops) <= 1
  /\ ReconnectLoops # {} => _reconnecting
  /\ fetcher.refused =>
        /\ fetcher.pc \in {"idle", "between"}
        /\ fetcher.op = "reconnect" => fetcher.value = "false"
        /\ fetcher.op # "reconnect" => fetcher.result = "raised"

\* a handler's reconnect loop is in progress and the caller's reconnect()
\* has been refused
C19_Witness ==
  /\ \E h \in Handlers : h \in ReconnectLoops
  /\ fetcher.op = "reconnect"
  /\ fetcher.refused

\* a handler task left its settling delay in this step
Woke(h) == task[h].pc = "settling" /\ task'[h].pc # "settling"

(***************************************************************************)
(* C20: every disconnect event received while auto_reconnect is true and   *)
(* no reconnection is in progress spawns a reconnection task, which starts *)
(* reconnecting once its 2 s settling delay is over; an event received     *)
(* while auto_reconnect is false or a reconnection is in progress spawns   *)
(* none.                                                                   *)
(***************************************************************************)
C20_EventSpawnsReconnect ==
  /\ [](last_event # None =>
          (last_event[1].spawned <=>
             last_event[1].auto_reconnect /\ ~last_event[1].reconnecting))
  /\ [][\A h \in Handlers :
          Woke(h) => task'[h].pc = "backoff" /\ _reconnecting']_vars

(***************************************************************************)
(* C20, as the code has it: a disconnect event spawns a reconnection task  *)
(* exactly when it arrives while the session is connected, auto_reconnect  *)
(* is true and no reconnection is in progress; once its settling delay is  *)
(* over the task starts reconnecting if the session is still not connected *)
(* and no reconnection has begun meanwhile, and ends without reconnecting  *)
(* otherwise.                                                              *)
(***************************************************************************)
C20_ConnectedEventSpawns ==
  /\ [](last_event # None =>
          (last_event[1].spawned <=>
             /\ last_event[1].auto_reconnect
             /\ last_event[1].was_connected
             /\ ~last_event[1].reconnecting))
  /\ [][\A h \in Handlers :
          Woke(h) =>
            IF ~_connected /\ ~_reconnecting
            THEN task'[h].pc = "backoff" /\ _reconnecting'
            ELSE task'[h].pc = "done" /\ UNCHANGED _reconnecting]_vars

\* the latest event spawned a handler, and a handler has started its
\* reconnect loop
C20_Witness ==
  /\ last_event # None
  /\ last_event[1].spawned
  /\ \E h \in Handlers : task[h].pc = "backoff"
  /\ _reconnecting

(***************************************************************************)
(* The session under fair scheduling: a timer that has run out wakes its   *)
(* task (gevent.sleep), a login that is awaited ends, and the upstream     *)
(* accepts a login that is tried again and again.                          *)
(***************************************************************************)
SessionLiveSpec ==
  /\ SessionSpec
  /\ \A t \in TaskIds :
       /\ WF_vars(AutoReconnectHandler(t))
       /\ WF_vars(BackoffOver(t))
       /\ SF_vars(LoginResult(t) /\ _connected')
  /\ WF_vars(DisconnectReturns)

\* the session is connected and its heartbeat task runs
SessionUp ==
  /\ IsConnected
  /\ _heartbeat_greenlet \in
       {Some("sleeping"), Some("sleeping after failure"), Some("sending")}

C22_BackoffDelays ==
  /\ [](\A t \in TaskIds :
          task[t].pc = "backoff" =>
            /\ task[t].attempt \in 1 .. 10
            /\ ReconnectDelay(task[t].attempt) =
                 <<5, 10, 20, 40, 80, 160, 300, 300, 300, 300>>[task[t].attempt]
            /\ ReconnectDelay(task[t].attempt) <= 300)
  /\ [][\A t \in TaskIds :
          (task'[t].pc = "backoff" /\ task[t].pc # "backoff") =>
            task'[t].attempt =
              IF task[t].pc = "relogin" /\ task[t].attempt < 10
              THEN task[t].attempt + 1 ELSE 1]_vars

\* a reconnect loop waits before its tenth attempt in a row
C22_Witness ==
  \E t \in TaskIds :
    /\ task[t].pc = "backoff"
    /\ task[t].attempt = 10
    /\ ReconnectDelay(task[t].attempt) = 300

\* C23: a reconnect(max_attempts = n) with n > 0 attempts at most n logins,
\* and once n logins have failed it has returned False: it never waits for
\* another attempt with n logins behind it
C23_LimitedReconnect ==
  reconnect_call.max_attempts > 0 =>
    /\ reconnect_call.logins <= reconnect_call.max_attempts
    /\ task[Caller].pc = "backoff" =>
         reconnect_call.logins < reconnect_call.max_attempts
    /\ reconnect_call.result = "false" =>
         reconnect_call.logins = reconnect_call.max_attempts

\* The change monitor under fair scheduling: run() is one thread of control,
\* so each step of its loop that can be taken is taken in the end. Nothing is
\* assumed of the upstream's answers, of stop() or of the session's events.
MonitorLiveSpec ==
  /\ Spec
  /\ WF_vars(PollChanges) /\ WF_vars(HandleChanges) /\ WF_vars(WriteCursor)
  /\ WF_vars(ProcessQueue) /\ WF_vars(ProcessBatch) /\ WF_vars(Sleep) /\ WF_vars(HandleError)
  /\ WF_vars(ReconnectWaitOver) /\ WF_vars(ReconnectLoginResult)
  /\ WF_vars(ExitLoop)

\* C24: once stop() has set _running to false in a running monitor, the loop
\* exits and the session is disconnected (or the process has died meanwhile),
\* whatever the loop was doing when stop() was called
C24_StopEndsLoop ==
  (MonitorActive /\ ~running) ~> (pc \in {"stopped", "idle", "exited"})

\* C25: a shutdown signal is graceful: the process exits only after the loop
\* of run() has exited and Disconnect() has been called on the session
C25_GracefulShutdown ==
  [][pc' = "exited" => pc \in {"stopped", "exited"}]_vars

\* C26: an error raised inside an iteration does not end the loop: run()
\* goes from its handler to the next iteration, through reconnect() only if
\* the session is not connected, and run() leaves its loop only at the loop
\* test with _running false. (A signal or the death of the process is not an
\* error of the iteration.)
C26_ErrorsAreCaught ==
  [][(pc' # pc /\ pc' \notin {"idle", "exited"}) =>
       /\ pc = "error" =>
            pc' \in (IF connected THEN {"poll"} ELSE {"poll", "reconnect_wait"})
       /\ pc \in {"reconnect_wait", "reconnect_login"} =>
            pc' \in {"poll", "reconnect_wait", "reconnect_login"}
       /\ (MonitorActive /\ pc' \in {"stopped", "failed"}) =>
            (pc = "poll" /\ ~running /\ pc' = "stopped")]_vars

\* an error was caught with the session lost and running still true, and
\* reconnect() is under way
C26_Witness == pc = "reconnect_wait" /\ running /\ ~connected

\* C27: a bulk run that connected and has ended, by returning or by raising,
\* has called disconnect() on the session: no client is left and
\* auto-reconnect is off
C27_BulkRunDisconnects ==
  (bulk.pc \in {"returned", "raised"} /\ bulk.connected) =>
    (_client = None /\ ~_auto_reconnect)

\* C28: extract is total: whatever the shape of the raw record, it returns
\* an ExtractedPICSData and does not raise
C28_ExtractTotal == extraction.result # "raised"

\* C29: when the upsert of a chunk of app rows fails, every app of the chunk
\* is counted in failed and the call leaves its apps row, its relation rows
\* and its sync_status row as they were, making no relation store call for
\* it; the apps of the other chunks are upserted, and synced and bumped
\* when no other store call fails
C29_FailedChunkLeftAlone ==
  call.done =>
    LET built == SelectSeq(call.batch,
                   LAMBDA e : e.appid \in DOMAIN call.before.apps /\ ~BuildRaises(e))
        ChunkOf(k) == {built[i].appid : i \in
                         {j \in DOMAIN built : (j - 1) \div UPSERT_BATCH_SIZE = k}}
        failed_chunks == {call.log[i].site[2] : i \in
                            {j \in DOMAIN call.log :
                               call.log[j].site[1] = "apps_upsert" /\ ~call.log[j].ok}}
        failed_apps == UNION {ChunkOf(k) : k \in failed_chunks}
    IN  failed_chunks # {} =>
          /\ call.stats.failed = Cardinality(failed_apps)
          /\ \A a \in failed_apps :
                /\ store.apps[a] = call.before.apps[a]
                /\ RowsOf(store, a) = RowsOf(call.before, a)
                /\ ~Bumped(a)
                /\ \A i \in DOMAIN call.log :
                     call.log[i].site[1] \in RelationKinds => call.log[i].site[2] # a
          /\ \A a \in Range(AppIdsOf(built)) \ failed_apps :
                /\ RowUpserted(a)
                /\ (\A i \in DOMAIN call.log :
                      ~call.log[i].ok => call.log[i].site[1] = "apps_upsert")
                    => Bumped(a)

\* a call in which the chunk of one app failed and the other app was
\* upserted and bumped
C29_Witness ==
  /\ call.done
  /\ CallFailed("apps_upsert")
  /\ call.stats.failed = 1
  /\ \E a \in BatchAppIds : RowUpserted(a) /\ Bumped(a)
  /\ \E a \in BatchAppIds \cap DOMAIN call.before.apps :
       ~RowUpserted(a) /\ ~Bumped(a)

\* C30: UpsertAppsBatch creates no row of apps and deletes none: the appids
\* that have a row after the call are those that had one before it
C30_NoAppsRowCreated ==
  call.done => DOMAIN store.apps = DOMAIN call.before.apps

\* a call on a batch with an app that has no row and an app that has one:
\* the second was updated and the first still has no row
C30_Witness ==
  /\ call.done
  /\ \E a \in BatchAppIds : a \notin DOMAIN call.before.apps /\ a \notin DOMAIN store.apps
  /\ \E a \in BatchAppIds : a \in DOMAIN call.before.apps /\ RowUpserted(a)

C32_ProcessingSetEmptyOutside ==
  /\ pc # "batch" => (processing_set = {} /\ queue_batch = <<>>)
  /\ pc = "batch" => (queue_batch # <<>> /\ processing_set = Range(queue_batch))

\* a batch has been drained, persisted and taken out of the processing set
C32_Witness ==
  /\ pc = "sleep"
  /\ processing_set = {}
  /\ \E a \in DOMAIN store.sync_status :
       store.sync_status[a].last_pics_sync # None

\* C33: an advancing delta is queued, then the cursor is written, then
\* _process_queue runs: run() goes from the handling of such a delta to the
\* cursor write; the cursor is written only there, with the delta's appids
\* already offered to the queue, no batch in flight and _process_queue of
\* this iteration still ahead, so the write does not wait for any of those
\* appids to be fetched or persisted
C33_QueueThenAdvance ==
  /\ [][(/\ pc = "handle"
          /\ pc' \notin {"handle", "idle", "exited"}
          /\ DeltaAdvances(changes, last_change))
         => /\ pc' = "write"
            /\ last_change' = changes[1].change_number
            /\ pics_sync_state' = pics_sync_state]_vars
  /\ [][pics_sync_state' # pics_sync_state =>
          /\ pc = "write" /\ pc' = "process"
          /\ pics_sync_state' = Some(last_change)
          /\ last_change = changes[1].change_number
          /\ queue_batch = <<>>
          /\ change_queue =
               EnqueueAll(queue_before, NewApps(changes[1].app_changes, processing_set))
          /\ store' = store]_vars

\* the cursor of a delta has been written while an appid of that delta is
\* in the queue, not persisted
C33_Witness ==
  /\ pc = "process"
  /\ boot.wrote
  /\ pics_sync_state = Some(last_change)
  /\ changes # None
  /\ last_change = changes[1].change_number
  /\ \E a \in Range(changes[1].app_changes) :
       a \in Range(change_queue) /\ a \in pending

\* C34: in the store calls of one UpsertAppsBatch call, every relation call
\* and every sync_status call of an app comes after the successful upsert
\* of the chunk that holds its apps row, and every sync_status call comes
\* after every relation call; an app whose last_pics_sync the call set had
\* its apps row written by the call
C34_RowThenRelationsThenStatus ==
  call.done =>
    LET log == call.log
        built == SelectSeq(call.batch,
                   LAMBDA e : e.appid \in DOMAIN call.before.apps /\ ~BuildRaises(e))
        ChunkIndex(a) ==
          ((CHOOSE j \in DOMAIN built : built[j].appid = a) - 1) \div UPSERT_BATCH_SIZE
        StatusKinds == {"status_batch", "status_one"}
    IN  /\ \A i \in DOMAIN log :
             (log[i].site[1] \in RelationKinds \cup {"status_one"}) =>
               /\ log[i].site[2] \in Range(AppIdsOf(built))
               /\ \E j \in 1 .. i - 1 :
                    /\ log[j].site = <<"apps_upsert", ChunkIndex(log[i].site[2])>>
                    /\ log[j].ok
        /\ \A i, j \in DOMAIN log :
             (log[i].site[1] \in StatusKinds /\
              log[j].site[1] \in RelationKinds \cup {"apps_upsert"}) => j < i
        /\ \A a \in BatchAppIds : Bumped(a) => RowUpserted(a)

\* a call that upserted a chunk, then made a relation call for an app of
\* it, then set the app's last_pics_sync
C34_Witness ==
  /\ call.done
  /\ \E i, j, k \in DOMAIN call.log :
       /\ i < j /\ j < k
       /\ call.log[i].site[1] = "apps_upsert" /\ call.log[i].ok
       /\ call.log[j].site[1] \in RelationKinds /\ call.log[j].ok
       /\ call.log[k].site[1] = "status_batch" /\ call.log[k].ok
       /\ Bumped(call.log[j].site[2])

C36_TypeIsCatalogType ==
  app_record.row_type # None =>
    /\ app_record.row_type[1] \in CatalogTypes
    /\ (app_record.type # None /\ app_record.type # Some(Text(<<>>))) =>
         app_record.row_type[1] =
           IF Lower(app_record.type[1].text) \in CatalogTypes
           THEN Lower(app_record.type[1].text) ELSE <<"g", "a", "m", "e">>
    /\ (app_record.type = None \/ app_record.type = Some(Text(<<>>))) =>
         /\ app_record.row_type[1] = InferType(app_record.name)
         \* a name the rules of demo and music match is a demo, one the
         \* rules of music and tool match is music, one the rules of tool
         \* and video match is a tool
         /\ app_record.name = Some(Text(<<"P", "o", "r", "t", "a", "l", " ", "D", "e", "m", "o", " ", "S", "o", "u", "n", "d", "t", "r", "a", "c", "k">>))
              => app_record.row_type[1] = <<"d", "e", "m", "o">>
         /\ app_record.name = Some(Text(<<"D", "e", "m", "o", " ", "S", "o", "u", "n", "d", "t", "r", "a", "c", "k", " ", "S", "D", "K">>))
              => app_record.row_type[1] = <<"m", "u", "s", "i", "c">>
         /\ app_record.name = Some(Text(<<"S", "o", "u", "r", "c", "e", " ", "S", "D", "K", " ", "T", "r", "a", "i", "l", "e", "r">>))
              => app_record.row_type[1] = <<"t", "o", "o", "l">>
         /\ app_record.row_type[1] \in
              {<<"d", "e", "m", "o">>,
               <<"m", "u", "s", "i", "c">>,
               <<"t", "o", "o", "l">>,
               <<"v", "i", "d", "e", "o">>,
               <<"g", "a", "m", "e">>}

\* a row was built for a record whose type the table does not hold
C36_Witness ==
  /\ app_record.type = Some(Text(<<"C", "o", "n", "f", "i", "g">>))
  /\ app_record.row_type = Some(<<"g", "a", "m", "e">>)

\* C37: a paginated read that has begun returns; the cursor grows with
\* every page that does not end the loop, and the loop ends only on a
\* failed query, an empty page or a page shorter than page_size; when no
\* query failed and the store was not written meanwhile, the list returned
\* holds the matching appids, each once, in ascending order
C37_PaginationTerminates ==
  /\ (paging.pc = "paging") ~> (paging.pc = "returned")
  /\ [][(paging.pc = "paging" /\ paging'.pc = "paging"
         /\ paging'.all_appids # paging.all_appids) =>
          /\ paging'.last_appid > paging.last_appid
          /\ Len(paging'.all_appids) = Len(paging.all_appids) + page_size]_vars
  /\ [][(paging.pc = "paging" /\ paging'.pc = "returned") =>
          \/ paging'.failed
          \/ Len(paging'.all_appids) < Len(paging.all_appids) + page_size]_vars
  /\ [](paging.pc = "returned" /\ ~paging.failed /\ ~paging.modified =>
          /\ paging.all_appids = paging.expected
          /\ paging.expected = Ascending(Matching(store, paging.unsynced_only))
          /\ \A i, j \in DOMAIN paging.all_appids :
               i < j => paging.all_appids[i] < paging.all_appids[j])

\* a read of more than one page has returned every matching appid: the
\* last page was a full one, so an empty page ended the loop
C37_Witness ==
  /\ paging.pc = "returned"
  /\ ~paging.failed
  /\ ~paging.modified
  /\ Len(paging.all_appids) = 2 * page_size
  /\ paging.unsynced_only

\* C38: a heartbeat task that has not ended exists only while the connected
\* flag is true: whatever has cleared the flag has stopped the heartbeat
C38_HeartbeatOnlyWhileConnected ==
  _heartbeat_greenlet \in
      {Some("sleeping"), Some("sleeping after failure"), Some("sending")}
    => _connected

\* C39: in a run whose read of the cursor succeeded, the stored
\* last_change_number (0 when none is stored) is at most the cursor in
\* memory; a cursor write, failed or not, leaves the cursor in memory and
\* the queue as they are and goes on to the queue, and a failed one leaves
\* the stored cursor as it is
C39_PersistedNotAhead ==
  /\ []((MonitorActive /\ ~boot.read_failed) =>
          GetLastChangeNumber(pics_sync_state, FALSE) <= last_change)
  /\ [][(pc = "write" /\ pc' # "write") =>
          /\ pc' \in {"process", "idle", "exited"}
          /\ pc' = "process" =>
               /\ UNCHANGED <<last_change, change_queue, pending>>
               /\ pics_sync_state' \in {pics_sync_state, Some(last_change)}]_vars

\* a cursor write has failed: the stored cursor is behind the cursor in
\* memory, and the appids of the delta are in the queue
C39_Witness ==
  /\ pc = "process"
  /\ ~boot.read_failed
  /\ ~boot.wrote
  /\ GetLastChangeNumber(pics_sync_state, FALSE) < last_change
  /\ change_queue # <<>>
  /\ change_queue # queue_before

\* C40: a pass of fetch_apps_batch that finds the session not connected
\* while a reconnection is in progress in a handler task ends the call in
\* the same step: its reconnect() is refused, the call raises RuntimeError,
\* no request is sent, no reconnect loop of its own begins and the session
\* is left as it is
C40_RefusedFetchFailsAtOnce ==
  [][(/\ fetcher' # fetcher
      /\ fetcher'.op \in {"fetch_apps_batch", "fetch_all_apps"}
      /\ task[Caller].pc = "ready" \/ fetcher.pc \in {"sleeping", "between"}
      /\ ~fetcher'.finished
      /\ NotConnected
      /\ _reconnecting) =>
       /\ \E h \in Handlers : h \in ReconnectLoops
       /\ fetcher'.refused
       /\ fetcher'.result = "raised"
       /\ fetcher'.value = "RuntimeError"
       /\ fetcher'.pc \in {"idle", "between"}
       /\ fetcher'.issued = IF fetcher.pc = "sleeping" THEN fetcher.issued ELSE 0
       /\ Caller \notin ReconnectLoops'
       /\ fetcher'.op = "fetch_apps_batch" => task'[Caller].pc = "ready"
       /\ UNCHANGED <<_reconnecting, _connected, _client, _heartbeat_greenlet>>]_vars

\* a retry of fetch_apps_batch found the session lost and a handler inside
\* reconnect(): the call has raised while the handler still awaits its
\* login
C40_Witness ==
  /\ fetcher.op = "fetch_apps_batch"
  /\ fetcher.refused
  /\ fetcher.result = "raised"
  /\ fetcher.value = "RuntimeError"
  /\ fetcher.attempt > 0
  /\ task[Caller].pc = "ready"
  /\ _reconnecting
  /\ \E h \in Handlers : task[h].pc = "relogin"

====
